---- MODULE Spec2Model ----
(***************************************************************************)
(* RaceStory Pro: the column normalizer and record parser of               *)
(* data_processing/csv_parser.py and the analyzer of                       *)
(* analysis/race_analyzer.py.                                              *)
(*                                                                         *)
(* Text is a sequence of one-character strings, so that strip, upper,      *)
(* split, startswith and the number parsers are computed character by      *)
(* character.  A number is an integer count of thousandths (1.234 is       *)
(* 1234): every lap time, gap and position of the inputs has at most three *)
(* decimals.                                                               *)
(***************************************************************************)
EXTENDS Integers, Sequences, FiniteSets, TLC

VARIABLES op, arg, after, ret, raised

vars == <<op, arg, after, ret, raised>>

(***************************************************************************)
(* Characters and text                                                     *)
(***************************************************************************)
Lowers == <<"a","b","c","d","e","f","g","h","i","j","k","l","m",
            "n","o","p","q","r","s","t","u","v","w","x","y","z">>

Uppers == <<"A","B","C","D","E","F","G","H","I","J","K","L","M",
            "N","O","P","Q","R","S","T","U","V","W","X","Y","Z">>

Digits == <<"0","1","2","3","4","5","6","7","8","9">>

Whitespace == {" ", "\t"}

Range(s) == {s[i] : i \in DOMAIN s}

LowerSet == Range(Lowers)

UpperSet == Range(Uppers)

DigitSet == Range(Digits)

UpperMap == [c \in LowerSet |-> Uppers[CHOOSE i \in DOMAIN Lowers : Lowers[i] = c]]

LowerMap == [c \in UpperSet |-> Lowers[CHOOSE i \in DOMAIN Uppers : Uppers[i] = c]]

DigitMap == [c \in DigitSet |-> (CHOOSE i \in DOMAIN Digits : Digits[i] = c) - 1]

\* str.upper() on one character
UpperChar(c) == IF c \in LowerSet THEN UpperMap[c] ELSE c

\* str.lower() on one character
LowerChar(c) == IF c \in UpperSet THEN LowerMap[c] ELSE c

Upper(s) == [i \in 1..Len(s) |-> UpperChar(s[i])]

Lower(s) == [i \in 1..Len(s) |-> LowerChar(s[i])]

\* str.strip(): leading and trailing whitespace removed
Strip(s) ==
  LET keep == {i \in DOMAIN s : s[i] \notin Whitespace}
  IN IF keep = {} THEN <<>>
     ELSE SubSeq(s, CHOOSE i \in keep : \A j \in keep : i <= j,
                    CHOOSE i \in keep : \A j \in keep : j <= i)

\* the position of the first c in s, 0 when there is none
IndexOf(s, c) ==
  IF \E i \in DOMAIN s : s[i] = c
  THEN CHOOSE i \in DOMAIN s : s[i] = c /\ \A j \in 1..(i-1) : s[j] # c
  ELSE 0

\* str.split(sep) for a one-character separator: every piece, in order
RECURSIVE Split(_, _)
Split(s, sep) ==
  LET k == IndexOf(s, sep)
  IN IF k = 0 THEN <<s>>
     ELSE <<SubSeq(s, 1, k - 1)>> \o Split(SubSeq(s, k + 1, Len(s)), sep)

StartsWith(s, c) == Len(s) > 0 /\ s[1] = c

AllDigits(s) == \A i \in DOMAIN s : s[i] \in DigitSet

DigitVal(c) == DigitMap[c]

RECURSIVE DigitsVal(_)
DigitsVal(s) ==
  IF s = <<>> THEN 0
  ELSE 10 * DigitsVal(SubSeq(s, 1, Len(s) - 1)) + DigitVal(s[Len(s)])

\* decimal digits of a natural number
RECURSIVE NatStr(_)
NatStr(n) ==
  IF n < 10 THEN <<Digits[n + 1]>>
  ELSE NatStr(n \div 10) \o <<Digits[(n % 10) + 1]>>

\* float(text): optional sign, digits, optional point and digits, within
\* surrounding whitespace; anything else is a ValueError (ok = FALSE).
\* The value is in thousandths.  Exponents, "inf" and "nan" are not among
\* the inputs.
ParseFloat(text) ==
  LET s      == Strip(text)
      signed == Len(s) > 0 /\ s[1] \in {"+", "-"}
      neg    == Len(s) > 0 /\ s[1] = "-"
      body   == IF signed THEN Tail(s) ELSE s
      dot    == IndexOf(body, ".")
      ip     == IF dot = 0 THEN body ELSE SubSeq(body, 1, dot - 1)
      fp     == IF dot = 0 THEN <<>> ELSE SubSeq(body, dot + 1, Len(body))
      fp3    == SubSeq(fp \o <<"0","0","0">>, 1, 3)
      mag    == DigitsVal(ip) * 1000 + DigitsVal(fp3)
  IN IF AllDigits(ip) /\ AllDigits(fp) /\ Len(ip) + Len(fp) > 0
     THEN [ok |-> TRUE, v |-> IF neg THEN 0 - mag ELSE mag]
     ELSE [ok |-> FALSE, v |-> 0]

\* int(text): optional sign and digits only; "5.0" is a ValueError
ParseInt(text) ==
  LET s      == Strip(text)
      signed == Len(s) > 0 /\ s[1] \in {"+", "-"}
      neg    == Len(s) > 0 /\ s[1] = "-"
      body   == IF signed THEN Tail(s) ELSE s
  IN IF AllDigits(body) /\ Len(body) > 0
     THEN [ok |-> TRUE, v |-> IF neg THEN 0 - DigitsVal(body) ELSE DigitsVal(body)]
     ELSE [ok |-> FALSE, v |-> 0]

\* str(x) of a float held in thousandths: "3.5", "3.0", "-1.25"
FormatNum(v) ==
  LET mag  == IF v < 0 THEN 0 - v ELSE v
      f    == mag % 1000
      frac == IF f % 100 = 0 THEN <<Digits[(f \div 100) + 1]>>
              ELSE IF f % 10 = 0
                   THEN <<Digits[(f \div 100) + 1], Digits[((f \div 10) % 10) + 1]>>
                   ELSE <<Digits[(f \div 100) + 1], Digits[((f \div 10) % 10) + 1],
                          Digits[(f % 10) + 1]>>
  IN (IF v < 0 THEN <<"-">> ELSE <<>>) \o NatStr(mag \div 1000) \o <<".">> \o frac

(***************************************************************************)
(* Cells and tables (pandas DataFrame)                                     *)
(***************************************************************************)
Str(s) == [t |-> "str", s |-> s, v |-> 0]

Num(v) == [t |-> "num", s |-> <<>>, v |-> v]

NaN == [t |-> "nan", s |-> <<>>, v |-> 0]

\* str(cell)
StrOf(c) ==
  IF c.t = "str" THEN c.s
  ELSE IF c.t = "num" THEN FormatNum(c.v)
  ELSE <<"n","a","n">>

\* bool(cell): an empty string and a zero are false, NaN is true
Truthy(c) == IF c.t = "str" THEN c.s # <<>> ELSE IF c.t = "num" THEN c.v # 0 ELSE TRUE

\* pd.notna(cell)
NotNa(c) == c.t # "nan"

\* a DataFrame: column labels, row labels (the index) and the rows' cells
DataFrame(columns, rows) ==
  [columns |-> columns, index |-> [i \in 1..Len(rows) |-> i - 1], rows |-> rows]

\* pd.DataFrame()
EmptyFrame == DataFrame(<<>>, <<>>)

\* df.empty: no rows or no columns
IsEmpty(df) == Len(df.rows) = 0 \/ Len(df.columns) = 0

HasColumn(df, c) == \E j \in DOMAIN df.columns : df.columns[j] = c

ColumnIndex(df, c) == CHOOSE j \in DOMAIN df.columns : df.columns[j] = c

\* row.get(c, default) for row i of df
Get(df, i, c, default) ==
  IF HasColumn(df, c) THEN df.rows[i][ColumnIndex(df, c)] ELSE default

\* how many columns carry the label c
CountColumn(df, c) == Cardinality({j \in DOMAIN df.columns : df.columns[j] = c})

(***************************************************************************)
(* Column labels the code names                                            *)
(***************************************************************************)
POSITION == <<"P","O","S","I","T","I","O","N">>
NUMBER == <<"N","U","M","B","E","R">>
DRIVER == <<"D","R","I","V","E","R">>
DRIVER_FIRST == <<"D","R","I","V","E","R","_","F","I","R","S","T">>
DRIVER_LAST == <<"D","R","I","V","E","R","_","L","A","S","T">>
DRIVER_FIRSTNAME == <<"D","R","I","V","E","R","_","F","I","R","S","T","N","A","M","E">>
DRIVER_SECONDNAME == <<"D","R","I","V","E","R","_","S","E","C","O","N","D","N","A","M","E">>
TEAM == <<"T","E","A","M">>
LAPS == <<"L","A","P","S">>
GAP_PREV == <<"G","A","P","_","P","R","E","V">>
FL_TIME == <<"F","L","_","T","I","M","E">>
FL_LAPNUM == <<"F","L","_","L","A","P","N","U","M">>
FL_KPH == <<"F","L","_","K","P","H">>
FL_RANK == <<"F","L","_","R","A","N","K">>
GRID == <<"G","R","I","D">>
STATUS == <<"S","T","A","T","U","S">>
FIRSTNAME == <<"F","I","R","S","T","N","A","M","E">>
SECONDNAME == <<"S","E","C","O","N","D","N","A","M","E">>
TOTAL_DRIVER_LAPS == <<"T","O","T","A","L","_","D","R","I","V","E","R","_","L","A","P","S">>
TIME_UTC_SECONDS == <<"T","I","M","E","_","U","T","C","_","S","E","C","O","N","D","S">>
AIR_TEMP == <<"A","I","R","_","T","E","M","P">>
TRACK_TEMP == <<"T","R","A","C","K","_","T","E","M","P">>
HUMIDITY == <<"H","U","M","I","D","I","T","Y">>
PRESSURE == <<"P","R","E","S","S","U","R","E">>
WIND_SPEED == <<"W","I","N","D","_","S","P","E","E","D">>
WIND_DIRECTION == <<"W","I","N","D","_","D","I","R","E","C","T","I","O","N">>
RAIN == <<"R","A","I","N">>

(***************************************************************************)
(* CSVParser.column_mappings, in declaration order                         *)
(***************************************************************************)
column_mappings ==
  << [name |-> <<"p","o","s","i","t","i","o","n">>,
      variants |-> << <<"P","O","S">>,
                    <<"P","O","S","I","T","I","O","N">>,
                    <<"P">>,
                    <<"R","A","N","K">> >>],
     [name |-> <<"n","u","m","b","e","r">>,
      variants |-> << <<"N","U","M","B","E","R">>,
                    <<"C","A","R">>,
                    <<"C","A","R","_","N","U","M","B","E","R">>,
                    <<"#">> >>],
     [name |-> <<"d","r","i","v","e","r">>,
      variants |-> << <<"D","R","I","V","E","R">>,
                    <<"D","R","I","V","E","R","_","N","A","M","E">>,
                    <<"N","A","M","E">> >>],
     [name |-> <<"d","r","i","v","e","r","_","f","i","r","s","t">>,
      variants |-> << <<"D","R","I","V","E","R","_","F","I","R","S","T","N","A","M","E">>,
                    <<"F","I","R","S","T","_","N","A","M","E">>,
                    <<"F","I","R","S","T","N","A","M","E">> >>],
     [name |-> <<"d","r","i","v","e","r","_","l","a","s","t">>,
      variants |-> << <<"D","R","I","V","E","R","_","S","E","C","O","N","D","N","A","M","E">>,
                    <<"L","A","S","T","_","N","A","M","E">>,
                    <<"S","U","R","N","A","M","E">>,
                    <<"L","A","S","T","N","A","M","E">> >>],
     [name |-> <<"t","e","a","m">>,
      variants |-> << <<"T","E","A","M">>,
                    <<"T","E","A","M","_","N","A","M","E">>,
                    <<"C","O","N","S","T","R","U","C","T","O","R">> >>],
     [name |-> <<"l","a","p","s">>,
      variants |-> << <<"L","A","P","S">>,
                    <<"T","O","T","A","L","_","L","A","P","S">>,
                    <<"L","A","P","S","_","C","O","M","P","L","E","T","E","D">> >>],
     [name |-> <<"t","i","m","e">>,
      variants |-> << <<"E","L","A","P","S","E","D">>,
                    <<"T","I","M","E">>,
                    <<"T","O","T","A","L","_","T","I","M","E">> >>],
     [name |-> <<"g","a","p">>,
      variants |-> << <<"G","A","P","_","F","I","R","S","T">>,
                    <<"G","A","P">>,
                    <<"I","N","T","E","R","V","A","L">> >>],
     [name |-> <<"g","a","p","_","p","r","e","v">>,
      variants |-> << <<"G","A","P","_","P","R","E","V","I","O","U","S">>,
                    <<"G","A","P","_","P","R","E","V">>,
                    <<"B","E","H","I","N","D">> >>],
     [name |-> <<"b","e","s","t","_","l","a","p">>,
      variants |-> << <<"B","E","S","T","_","L","A","P","_","T","I","M","E">>,
                    <<"B","E","S","T","_","L","A","P">>,
                    <<"F","A","S","T","E","S","T","_","L","A","P">> >>],
     [name |-> <<"b","e","s","t","_","l","a","p","_","n","u","m">>,
      variants |-> << <<"B","E","S","T","_","L","A","P","_","N","U","M">>,
                    <<"B","E","S","T","_","L","A","P","_","N","U","M","B","E","R">>,
                    <<"F","L","_","L","A","P">> >>],
     [name |-> <<"b","e","s","t","_","l","a","p","_","s","p","e","e","d">>,
      variants |-> << <<"B","E","S","T","_","L","A","P","_","K","P","H">>,
                    <<"B","E","S","T","_","L","A","P","_","M","P","H">>,
                    <<"F","L","_","S","P","E","E","D">> >>],
     [name |-> <<"s","t","a","t","u","s">>,
      variants |-> << <<"S","T","A","T","U","S">>,
                    <<"C","L","A","S","S","_","T","Y","P","E">>,
                    <<"C","L","A","S","S","I","F","I","C","A","T","I","O","N">> >>],
     [name |-> <<"c","l","a","s","s">>,
      variants |-> << <<"C","L","A","S","S","_","T","Y","P","E">>,
                    <<"C","L","A","S","S">>,
                    <<"C","A","T","E","G","O","R","Y">> >>],
     [name |-> <<"v","e","h","i","c","l","e">>,
      variants |-> << <<"V","E","H","I","C","L","E">>,
                    <<"C","A","R","_","M","O","D","E","L">>,
                    <<"M","O","D","E","L">> >>] >>

(***************************************************************************)
(* CSVParser.normalize_columns                                             *)
(***************************************************************************)
\* [v.upper() for v in variants], for each field
UpperVariants ==
  [k \in DOMAIN column_mappings |->
     {Upper(column_mappings[k].variants[a]) : a \in DOMAIN column_mappings[k].variants}]

\* a field renamed to its first variant instead of its own name
FirstVariantNames == [k \in DOMAIN column_mappings |-> Upper(column_mappings[k].variants[1])]

\* standard_name.upper(), for each field
StandardNames == [k \in DOMAIN column_mappings |-> Upper(column_mappings[k].name)]

\* col_upper in [v.upper() for v in variants], for field k
InVariants(col_upper, k) == col_upper \in UpperVariants[k]

\* the inner loop without its break: the last field that lists the column
\* wins
RECURSIVE LastMatch(_, _)
LastMatch(col_upper, k) ==
  IF k < 1 THEN [found |-> FALSE, name |-> <<>>]
  ELSE IF InVariants(col_upper, k)
       THEN [found |-> TRUE, name |-> StandardNames[k]]
       ELSE LastMatch(col_upper, k - 1)

\* the inner loop over column_mappings.items() from field k on: the first
\* field that lists the column, then break
RECURSIVE FirstMatch(_, _)
FirstMatch(col_upper, k) ==
  IF k > Len(column_mappings) THEN [found |-> FALSE, name |-> <<>>]
  ELSE IF InVariants(col_upper, k)
       THEN [found |-> TRUE, name |-> StandardNames[k]]
       ELSE FirstMatch(col_upper, k + 1)

MatchLast(col) == LastMatch(Upper(col), Len(column_mappings))

\* normalized.get(col): the standard name of a (stripped) column, if any
Match(col) == FirstMatch(Upper(col), 1)

\* df.columns = df.columns.str.strip(): assigned on the caller's frame
StripColumns(df) ==
  [df EXCEPT !.columns = [j \in 1..Len(df.columns) |-> Strip(df.columns[j])]]

\* df.rename(columns=normalized): a new frame
Rename(df) ==
  [df EXCEPT !.columns =
     [j \in 1..Len(df.columns) |->
        IF Match(df.columns[j]).found THEN Match(df.columns[j]).name
        ELSE df.columns[j]]]

\* normalize_columns(df): caller is the frame the caller passed, as the call
\* leaves it; result is the frame returned
normalize_columns(df) ==
  [caller |-> StripColumns(df), result |-> Rename(StripColumns(df))]

(***************************************************************************)
(* pd.read_csv, pd.to_numeric, pd.to_datetime as the parser uses them      *)
(***************************************************************************)
\* pd.to_numeric(cell, errors='coerce')
ToNumeric(c) ==
  IF c.t = "str"
  THEN IF ParseFloat(c.s).ok THEN Num(ParseFloat(c.s).v) ELSE NaN
  ELSE c

\* pd.to_datetime(cell, unit='s', errors='coerce')
ToDatetime(c) == IF c.t = "num" THEN [t |-> "ts", s |-> <<>>, v |-> c.v] ELSE NaN

\* the fields of one line, padded with empty fields to n
Fields(line, delim, n) ==
  [j \in 1..n |-> IF j <= Len(Split(line, delim)) THEN Split(line, delim)[j] ELSE <<>>]

\* the lines of a file that are not blank (skip_blank_lines)
RECURSIVE NonBlank(_)
NonBlank(lines) ==
  IF lines = <<>> THEN <<>>
  ELSE IF Head(lines) = <<>> THEN NonBlank(Tail(lines))
       ELSE <<Head(lines)>> \o NonBlank(Tail(lines))

\* the header's names
HeaderOf(file, delim) == Split(Head(NonBlank(file.lines)), delim)

\* the data rows' fields, as text
TextsOf(file, delim) ==
  [i \in 1..(Len(NonBlank(file.lines)) - 1) |->
     Fields(NonBlank(file.lines)[i + 1], delim, Len(HeaderOf(file, delim)))]

\* read_csv's column type: numbers when every non-empty field of the column
\* is a number, text otherwise
NumericColumn(texts, j) ==
  \A i \in DOMAIN texts : texts[i][j] = <<>> \/ ParseFloat(texts[i][j]).ok

\* a field as read_csv types it: an empty field is NaN in either case
InferCell(text, numeric) ==
  IF text = <<>> THEN NaN
  ELSE IF numeric THEN Num(ParseFloat(text).v)
  ELSE Str(text)

\* pd.read_csv(file_path, delimiter=delimiter, encoding='utf-8').  A file is
\* missing, unreadable (permissions, bad encoding, a directory) or text; a
\* text file without any line raises EmptyDataError.  No line of the inputs
\* has more fields than the header, and no header names a column twice.
read_csv(file, delim) ==
  IF file.kind # "text" \/ NonBlank(file.lines) = <<>>
  THEN [exc |-> TRUE, df |-> EmptyFrame]
  ELSE [exc |-> FALSE,
        df  |-> DataFrame(HeaderOf(file, delim),
                          [i \in DOMAIN TextsOf(file, delim) |->
                             [j \in 1..Len(HeaderOf(file, delim)) |->
                                InferCell(TextsOf(file, delim)[i][j],
                                          NumericColumn(TextsOf(file, delim), j))]])]

\* df[col] = pd.to_numeric(df[col], errors='coerce') under "if col in
\* df.columns", for each col of cols: df[col] is a frame, not a series, when
\* two columns carry the label, and to_numeric raises TypeError on it
CoerceColumns(r, cols) ==
  IF r.exc THEN r
  ELSE IF \E k \in DOMAIN cols : CountColumn(r.df, cols[k]) > 1
       THEN [exc |-> TRUE, df |-> r.df]
       ELSE [exc |-> FALSE,
             df  |-> [r.df EXCEPT !.rows =
                        [i \in DOMAIN r.df.rows |->
                           [j \in DOMAIN r.df.columns |->
                              IF r.df.columns[j] \in Range(cols)
                              THEN ToNumeric(r.df.rows[i][j])
                              ELSE r.df.rows[i][j]]]]]

\* the one element of a set of one element
The(S) == CHOOSE x \in S : TRUE

\* the parsers' handler left out: the exception reaches the caller
Unguarded(r) == r

\* except Exception as e: logger.error(...); return pd.DataFrame()
Guarded(r) == IF r.exc THEN [exc |-> FALSE, df |-> EmptyFrame] ELSE r

\* df = self.normalize_columns(df) on the frame read_csv made
ReadNormalized(r) ==
  IF r.exc THEN r ELSE [exc |-> FALSE, df |-> normalize_columns(r.df).result]

ResultsNumericCols == <<POSITION, NUMBER, LAPS>>

WeatherNumericCols ==
  <<AIR_TEMP, TRACK_TEMP, HUMIDITY, PRESSURE, WIND_SPEED, WIND_DIRECTION, RAIN>>

BestLapsNumericCols == <<NUMBER, TOTAL_DRIVER_LAPS>>

timestamp == <<"t","i","m","e","s","t","a","m","p">>

\* df['TIME_UTC_SECONDS'] = pd.to_numeric(...) and
\* df['timestamp'] = pd.to_datetime(df['TIME_UTC_SECONDS'], unit='s', ...),
\* c being the frame with TIME_UTC_SECONDS made numeric
SetTimestamp(c) ==
  IF c.exc THEN c
  ELSE [exc |-> FALSE,
        df  |-> IF HasColumn(c.df, timestamp)
                THEN [c.df EXCEPT !.rows =
                        [i \in DOMAIN c.df.rows |->
                           [j \in DOMAIN c.df.columns |->
                              IF c.df.columns[j] = timestamp
                              THEN ToDatetime(Get(c.df, i, TIME_UTC_SECONDS, NaN))
                              ELSE c.df.rows[i][j]]]]
                ELSE [c.df EXCEPT
                        !.columns = Append(c.df.columns, timestamp),
                        !.rows = [i \in DOMAIN c.df.rows |->
                                    Append(c.df.rows[i],
                                           ToDatetime(Get(c.df, i, TIME_UTC_SECONDS, NaN)))]]]

\* if 'TIME_UTC_SECONDS' in df.columns: ...
AddTimestamp(r) ==
  IF r.exc \/ ~HasColumn(r.df, TIME_UTC_SECONDS) THEN r
  ELSE The({SetTimestamp(c) : c \in {CoerceColumns(r, <<TIME_UTC_SECONDS>>)}})

\* each parser: read, normalize, coerce, all inside try/except.  Every step's
\* result is bound as a value before the next step reads it.
parse_race_results(file, delim) ==
  The({Guarded(c) : c \in
        {CoerceColumns(n, ResultsNumericCols) : n \in
          {ReadNormalized(r) : r \in {read_csv(file, delim)}}}})

parse_weather_data(file, delim) ==
  The({Guarded(c) : c \in
        {CoerceColumns(t, WeatherNumericCols) : t \in
          {AddTimestamp(n) : n \in
            {ReadNormalized(r) : r \in {read_csv(file, delim)}}}}})

parse_lap_times(file, delim) ==
  The({Guarded(c) : c \in
        {CoerceColumns(n, <<NUMBER>>) : n \in
          {ReadNormalized(r) : r \in {read_csv(file, delim)}}}})

parse_best_laps(file, delim) ==
  The({Guarded(c) : c \in
        {CoerceColumns(n, BestLapsNumericCols) : n \in
          {ReadNormalized(r) : r \in {read_csv(file, delim)}}}})

(***************************************************************************)
(* RaceAnalyzer.identify_key_battles                                       *)
(***************************************************************************)
Unknown == <<"U","n","k","n","o","w","n">>

NotAvailable == <<"N","/","A">>

\* driver_name = row.get('DRIVER', ''); if not driver_name: driver_name =
\* f"{row.get('DRIVER_FIRST', '')} {row.get('DRIVER_LAST', '')}".strip()
DriverName(df, i) ==
  IF Truthy(Get(df, i, DRIVER, Str(<<>>))) THEN Get(df, i, DRIVER, Str(<<>>))
  ELSE Str(Strip(StrOf(Get(df, i, DRIVER_FIRST, Str(<<>>))) \o <<" ">>
                   \o StrOf(Get(df, i, DRIVER_LAST, Str(<<>>)))))

\* driver_name or 'Unknown'
OrUnknown(c) == IF Truthy(c) THEN c ELSE Str(Unknown)

\* gap_str = str(row.get('GAP_PREV', ''))
GapStr(df, i) == StrOf(Get(df, i, GAP_PREV, Str(<<>>)))

\* float(gap_str[1:])
GapOf(df, i) == ParseFloat(Tail(GapStr(df, i)))

\* the row test with the '+' test left out
IsBattleAnySign(df, i, gap_threshold) ==
  /\ df.index[i] # 0
  /\ GapStr(df, i) # <<>>
  /\ GapOf(df, i).ok
  /\ GapOf(df, i).v <= gap_threshold

\* the loop body's tests: not the row labelled 0, gap_str starts with '+',
\* float() does not raise ValueError (caught: continue), gap <= gap_threshold
IsBattle(df, i, gap_threshold) ==
  /\ df.index[i] # 0
  /\ StartsWith(GapStr(df, i), "+")
  /\ GapOf(df, i).ok
  /\ GapOf(df, i).v <= gap_threshold

Battle(df, i) ==
  [position       |-> Get(df, i, POSITION, Num(1000 * (df.index[i] + 1))),
   driver         |-> OrUnknown(DriverName(df, i)),
   car_number     |-> Get(df, i, NUMBER, Str(NotAvailable)),
   gap            |-> GapOf(df, i).v,
   classification |-> "Close Battle"]

RECURSIVE BattlesFrom(_, _, _)
BattlesFrom(df, gap_threshold, i) ==
  IF i > Len(df.rows) THEN <<>>
  ELSE (IF IsBattle(df, i, gap_threshold) THEN <<Battle(df, i)>> ELSE <<>>)
         \o BattlesFrom(df, gap_threshold, i + 1)

identify_key_battles(df, gap_threshold) ==
  IF IsEmpty(df) \/ ~HasColumn(df, GAP_PREV) THEN <<>>
  ELSE BattlesFrom(df, gap_threshold, 1)

\* gap_threshold: float = 5.0
DefaultGapThreshold == 5000

(***************************************************************************)
(* RaceAnalyzer.analyze_fastest_laps                                       *)
(***************************************************************************)
\* the characters of the inputs in code point order
CharOrder ==
  <<" ", "#", "+", "-", ".", "/", "0", "1", "2", "3", "4", "5", "6", "7", "8", "9", ":", ";">>
    \o Uppers \o <<"_">> \o Lowers

CodeMap == [c \in Range(CharOrder) |-> CHOOSE i \in DOMAIN CharOrder : CharOrder[i] = c]

\* a < b for two Python strings: by the first differing character, a proper
\* prefix first
TextLess(a, b) ==
  \E k \in 1..(Len(b)) :
     /\ \A m \in 1..(k - 1) : m <= Len(a) /\ a[m] = b[m]
     /\ k - 1 <= Len(a)
     /\ (k > Len(a) \/ CodeMap[a[k]] < CodeMap[b[k]])

\* a < b for two cells that are not NaN: numbers by value, text as strings
CellLess(a, b) ==
  IF a.t = "str" /\ b.t = "str" THEN TextLess(a.s, b.s) ELSE a.v < b.v

\* the permutations of 1..n
Perms(n) == {p \in [1..n -> 1..n] : \A i, j \in 1..n : p[i] = p[j] => i = j}

\* the orders kind='quicksort' (sort_values' default) may give the cells:
\* NaN last, in row order; the others ascending, equal ones in any order
\* (the sort is not stable)
SortOrders(cells) ==
  {p \in Perms(Len(cells)) :
     \A i, j \in 1..Len(cells) :
        i < j =>
          /\ ~NotNa(cells[p[i]]) => ~NotNa(cells[p[j]]) /\ p[i] < p[j]
          /\ (NotNa(cells[p[i]]) /\ NotNa(cells[p[j]])) => ~CellLess(cells[p[j]], cells[p[i]])}

FastestLapColumns ==
  <<POSITION, NUMBER, DRIVER_FIRSTNAME, DRIVER_SECONDNAME, FL_TIME, FL_LAPNUM, FL_KPH, TEAM>>

\* results_df[[...]].copy(): a new frame of the eight columns
FastestLapFrame(df) ==
  [columns |-> FastestLapColumns,
   index   |-> df.index,
   rows    |-> [i \in DOMAIN df.rows |->
                  [j \in DOMAIN FastestLapColumns |->
                     Get(df, i, FastestLapColumns[j], NaN)]]]

\* the cells of one column, by row
ColumnCells(df, c) == [i \in DOMAIN df.rows |-> Get(df, i, c, NaN)]

\* text and numbers in one column do not compare: sort_values raises
\* TypeError
Sortable(cells) ==
  \A i, j \in DOMAIN cells : (NotNa(cells[i]) /\ NotNa(cells[j])) => cells[i].t = cells[j].t

\* fl_df.sort_values('FL_TIME') in the order p, then
\* fl_df['FL_RANK'] = range(1, len(fl_df) + 1)
Ranked(fl, p) ==
  [columns |-> Append(fl.columns, FL_RANK),
   index   |-> [k \in DOMAIN fl.rows |-> fl.index[p[k]]],
   rows    |-> [k \in DOMAIN fl.rows |-> Append(fl.rows[p[k]], Num(1000 * k))]]

\* the sort and the FL_RANK column done on results_df itself
RankedInPlace(df, fl) == fl

\* results_df after the call: fl_df is a copy, sort_values returns a new
\* frame and FL_RANK is assigned on it, so results_df is as it was
CallerFrame(df, fl) == df

\* every outcome of analyze_fastest_laps(results_df): the empty frame without
\* rows or FL_TIME, KeyError when one of the eight columns is absent, else
\* the ranked copy in one of the orders of the sort; caller is results_df as
\* the call leaves it
analyze_fastest_laps(df) ==
  IF IsEmpty(df) \/ ~HasColumn(df, FL_TIME)
  THEN {[exc |-> FALSE, df |-> EmptyFrame, caller |-> df]}
  ELSE IF \E j \in DOMAIN FastestLapColumns : ~HasColumn(df, FastestLapColumns[j])
       THEN {[exc |-> TRUE, df |-> EmptyFrame, caller |-> df]}
       ELSE IF ~Sortable(ColumnCells(df, FL_TIME))
            THEN {[exc |-> TRUE, df |-> EmptyFrame, caller |-> df]}
            ELSE {[exc |-> FALSE, df |-> fl, caller |-> CallerFrame(df, fl)] :
                    fl \in {Ranked(FastestLapFrame(df), p) :
                              p \in SortOrders(ColumnCells(df, FL_TIME))}}

(***************************************************************************)
(* RaceAnalyzer.calculate_consistency                                      *)
(***************************************************************************)
\* for i in range(1, 11)
BestLapCount == 10

\* if len(lap_times) >= 3
MinLaps == 3

\* f'BESTLAP_{i}'
BestLapColumn(i) == <<"B","E","S","T","L","A","P","_">> \o NatStr(i)

\* the lap columns 1..BestLapCount that the frame has
LapColumns(df) == {k \in 1..BestLapCount : HasColumn(df, BestLapColumn(k))}

\* time_str = str(row[lap_col])
TimeStr(df, i, k) == StrOf(Get(df, i, BestLapColumn(k), NaN))

\* parts = time_str.split(':'); float(parts[0]) * 60 + float(parts[1]), in
\* thousandths of a second; ok is FALSE without a colon and on ValueError
LapSeconds(text) ==
  IF IndexOf(text, ":") = 0 THEN [ok |-> FALSE, v |-> 0]
  ELSE IF ParseFloat(Split(text, ":")[1]).ok /\ ParseFloat(Split(text, ":")[2]).ok
       THEN [ok |-> TRUE,
             v  |-> ParseFloat(Split(text, ":")[1]).v * 60 + ParseFloat(Split(text, ":")[2]).v]
       ELSE [ok |-> FALSE, v |-> 0]

\* the lap columns of row i whose cell is appended to lap_times
TimedLaps(df, i) ==
  {k \in LapColumns(df) :
     NotNa(Get(df, i, BestLapColumn(k), NaN)) /\ LapSeconds(TimeStr(df, i, k)).ok}

\* lap_times of row i, as the set of (column, seconds) pairs
LapTimes(df, i) == {<<k, LapSeconds(TimeStr(df, i, k)).v>> : k \in TimedLaps(df, i)}

RECURSIVE SumOf(_)
SumOf(S) ==
  IF S = {} THEN 0
  ELSE LET x == CHOOSE y \in S : TRUE IN x[2] + SumOf(S \ {x})

MinTime(S) == CHOOSE m \in {x[2] : x \in S} : \A x \in S : m <= x[2]

\* the lap times less the best one, which leaves the deviation as it is
Offsets(S) == {<<x[1], x[2] - MinTime(S)>> : x \in S}

Squares(S) == {<<x[1], x[2] * x[2]>> : x \in S}

\* np.std(lap_times) is sqrt(spread) / n for the n lap times of the row:
\* spread = n * sum(d * d) - sum(d) ** 2 over the offsets d
Spread(S) ==
  Cardinality(S) * SumOf(Squares(Offsets(S))) - SumOf(Offsets(S)) * SumOf(Offsets(S))

\* the dict appended for row i.  std_dev is kept as spread and n, and
\* average_lap as total and n; consistency_score is 1 / (std_dev + 0.001)
\* and orders the records as ScoreLess does.
Consistency(df, i) ==
  [driver     |-> Str(StrOf(Get(df, i, FIRSTNAME, Str(<<>>))) \o <<" ">>
                        \o StrOf(Get(df, i, SECONDNAME, Str(<<>>)))),
   car_number |-> Get(df, i, NUMBER, NaN),
   team       |-> Get(df, i, TEAM, Str(<<>>)),
   best_lap   |-> MinTime(LapTimes(df, i)),
   total      |-> SumOf(LapTimes(df, i)),
   n          |-> Cardinality(LapTimes(df, i)),
   spread     |-> Spread(LapTimes(df, i))]

\* a's consistency_score < b's: a's standard deviation is the larger
ScoreLess(a, b) == a.spread * b.n * b.n > b.spread * a.n * a.n

\* the rows that get a record
Consistent(df) == {i \in DOMAIN df.rows : Cardinality(TimedLaps(df, i)) >= MinLaps}

\* consistency_data: the records in row order
RECURSIVE ConsistencyFrom(_, _)
ConsistencyFrom(df, i) ==
  IF i > Len(df.rows) THEN <<>>
  ELSE (IF i \in Consistent(df) THEN <<Consistency(df, i)>> ELSE <<>>)
         \o ConsistencyFrom(df, i + 1)

\* the sort left out: the records stay in row order
RowOrder(data) == {[k \in 1..Len(data) |-> k]}

\* the orders sort_values('consistency_score', ascending=False) may give:
\* descending, equal scores in any order
ScoreOrders(data) ==
  {p \in Perms(Len(data)) :
     \A i, j \in 1..Len(data) : i < j => ~ScoreLess(data[p[i]], data[p[j]])}

\* every outcome of calculate_consistency(best_laps_df): no record for an
\* empty frame, KeyError from row['NUMBER'] when a row gets a record and the
\* frame has no NUMBER, else the records in one of the orders of the sort
calculate_consistency(df) ==
  IF IsEmpty(df) THEN {[exc |-> FALSE, val |-> <<>>]}
  ELSE IF Consistent(df) # {} /\ ~HasColumn(df, NUMBER)
       THEN {[exc |-> TRUE, val |-> <<>>]}
       ELSE {[exc |-> FALSE,
              val |-> [k \in DOMAIN data |-> data[p[k]]]] :
               data \in {ConsistencyFrom(df, 1)}, p \in ScoreOrders(ConsistencyFrom(df, 1))}

(***************************************************************************)
(* RaceAnalyzer.get_position_changes                                       *)
(***************************************************************************)
\* int(cell): a number is truncated toward zero, text is read as an
\* integer, and NaN or any other text is a ValueError
IntOf(c) ==
  IF c.t = "num"
  THEN [ok |-> TRUE, v |-> IF c.v < 0 THEN 0 - ((0 - c.v) \div 1000) ELSE c.v \div 1000]
  ELSE IF c.t = "str" THEN ParseInt(c.s)
  ELSE [ok |-> FALSE, v |-> 0]

\* the try block of row i runs to the append: neither int() raises
\* ValueError, and row['POSITION'] and row['NUMBER'] raise no KeyError
Changed(df, i, grid_position_col) ==
  /\ IntOf(Get(df, i, grid_position_col, NaN)).ok
  /\ HasColumn(df, POSITION)
  /\ IntOf(Get(df, i, POSITION, NaN)).ok
  /\ HasColumn(df, NUMBER)

ChangeInfo(df, i, grid_position_col) ==
  [driver          |-> Str(StrOf(Get(df, i, DRIVER_FIRSTNAME, Str(<<>>))) \o <<" ">>
                             \o StrOf(Get(df, i, DRIVER_SECONDNAME, Str(<<>>)))),
   car_number      |-> Get(df, i, NUMBER, NaN),
   start_position  |-> IntOf(Get(df, i, grid_position_col, NaN)).v,
   finish_position |-> IntOf(Get(df, i, POSITION, NaN)).v,
   positions_gained |->
     IntOf(Get(df, i, grid_position_col, NaN)).v - IntOf(Get(df, i, POSITION, NaN)).v]

RECURSIVE ChangesFrom(_, _, _)
ChangesFrom(df, grid_position_col, i) ==
  IF i > Len(df.rows) THEN <<>>
  ELSE (IF Changed(df, i, grid_position_col)
        THEN <<ChangeInfo(df, i, grid_position_col)>> ELSE <<>>)
         \o ChangesFrom(df, grid_position_col, i + 1)

\* changes.sort(key=lambda x: x['positions_gained'], reverse=True): a stable
\* sort, so the place of element i is fixed by the larger gains and by the
\* equal gains before it
PlaceOf(changes, i) ==
  1 + Cardinality({j \in DOMAIN changes :
                     \/ changes[j].positions_gained > changes[i].positions_gained
                     \/ /\ changes[j].positions_gained = changes[i].positions_gained
                        /\ j < i})

SortByGain(changes) ==
  [k \in DOMAIN changes |-> changes[CHOOSE i \in DOMAIN changes : PlaceOf(changes, i) = k]]

get_position_changes(df, grid_position_col) ==
  IF IsEmpty(df) \/ ~HasColumn(df, grid_position_col) THEN <<>>
  ELSE The({SortByGain(c) : c \in {ChangesFrom(df, grid_position_col, 1)}})

(***************************************************************************)
(* RaceAnalyzer.generate_race_summary                                      *)
(***************************************************************************)
\* an entry of the summary that is None
NoEntry ==
  [none |-> TRUE, driver |-> NaN, car_number |-> NaN, team |-> NaN, laps |-> NaN,
   time |-> NaN, lap |-> NaN, speed |-> NaN]

\* summary['winner'], from results_df.iloc[0]
Winner(df) ==
  [NoEntry EXCEPT
     !.none = FALSE,
     !.driver = OrUnknown(DriverName(df, 1)),
     !.car_number = Get(df, 1, NUMBER, Str(NotAvailable)),
     !.team = Get(df, 1, TEAM, Str(NotAvailable)),
     !.laps = Get(df, 1, LAPS, Num(0))]

\* summary['fastest_lap'], from fl_df.iloc[0]
FastestLap(fl) ==
  IF IsEmpty(fl) THEN NoEntry
  ELSE [NoEntry EXCEPT
          !.none = FALSE,
          !.driver = OrUnknown(DriverName(fl, 1)),
          !.time = Get(fl, 1, FL_TIME, NaN),
          !.lap = Get(fl, 1, FL_LAPNUM, NaN),
          !.speed = Get(fl, 1, FL_KPH, NaN)]

\* the summary as initialised
EmptySummary ==
  [winner |-> NoEntry, pole_position |-> NoEntry, fastest_lap |-> NoEntry,
   total_finishers |-> 0, close_battles |-> <<>>, top_performers |-> <<>>]

\* every outcome of generate_race_summary(race_data), race_data being a
\* function from the data kinds it holds to their frames; an exception of
\* analyze_fastest_laps is not caught; caller is race_data as the call
\* leaves it
generate_race_summary(race_data) ==
  IF "results" \notin DOMAIN race_data \/ IsEmpty(race_data["results"])
  THEN {[exc |-> FALSE, val |-> EmptySummary, caller |-> race_data]}
  ELSE {IF fl.exc
        THEN [exc |-> TRUE, val |-> EmptySummary,
              caller |-> [race_data EXCEPT !["results"] = fl.caller]]
        ELSE [exc |-> FALSE,
              caller |-> [race_data EXCEPT !["results"] = fl.caller],
              val |-> [EmptySummary EXCEPT
                         !.winner = Winner(race_data["results"]),
                         !.fastest_lap = FastestLap(fl.df),
                         !.close_battles =
                           identify_key_battles(race_data["results"], DefaultGapThreshold),
                         !.total_finishers = Len(race_data["results"].rows)]] :
          fl \in analyze_fastest_laps(race_data["results"])}

(***************************************************************************)
(* RaceAnalyzer.analyze_race_progression                                   *)
(***************************************************************************)
Classified == <<"C","l","a","s","s","i","f","i","e","d">>

\* the analysis as initialised; average_laps is kept as the total and the
\* number of the cells averaged (0 is 0 over 1, nan is 0 over 0)
EmptyAnalysis ==
  [total_finishers |-> 0, total_classified |-> 0, dnf_count |-> 0,
   average_laps |-> [total |-> 0, n |-> 1], position_changes |-> <<>>]

\* len(results_df[results_df['STATUS'] == 'Classified'])
ClassifiedRows(df) ==
  {i \in DOMAIN df.rows : Get(df, i, STATUS, NaN) = Str(Classified)}

\* the rows whose LAPS cell is a number: mean() skips NaN
LapsRows(df) == {i \in DOMAIN df.rows : Get(df, i, LAPS, NaN).t = "num"}

\* results_df['LAPS'].mean()
MeanLaps(df) ==
  [total |-> SumOf({<<i, Get(df, i, LAPS, NaN).v>> : i \in LapsRows(df)}),
   n     |-> Cardinality(LapsRows(df))]

\* analyze_race_progression(results_df): the analysis as initialised for an
\* empty frame, KeyError from results_df['STATUS'] without that column.  When
\* two columns carry the label STATUS, results_df['STATUS'] == 'Classified'
\* is a frame of booleans and results_df[...] of it masks cells and drops no
\* row, so every row is counted, unless aligning the mask on the repeated
\* label raises.
analyze_race_progression(df) ==
  IF IsEmpty(df) THEN {[exc |-> FALSE, val |-> EmptyAnalysis]}
  ELSE IF ~HasColumn(df, STATUS) THEN {[exc |-> TRUE, val |-> EmptyAnalysis]}
  ELSE IF CountColumn(df, STATUS) > 1
       THEN {[exc |-> TRUE, val |-> EmptyAnalysis],
             [exc |-> FALSE,
              val |-> [EmptyAnalysis EXCEPT
                         !.total_finishers = Len(df.rows),
                         !.total_classified = Len(df.rows),
                         !.dnf_count = 0,
                         !.average_laps = IF HasColumn(df, LAPS) THEN MeanLaps(df) ELSE @]]}
       ELSE {[exc |-> FALSE,
              val |-> [EmptyAnalysis EXCEPT
                         !.total_finishers = Len(df.rows),
                         !.total_classified = Cardinality(ClassifiedRows(df)),
                         !.dnf_count = Len(df.rows) - Cardinality(ClassifiedRows(df)),
                         !.average_laps = IF HasColumn(df, LAPS) THEN MeanLaps(df) ELSE @]]}

(***************************************************************************)
(* CSVParser.get_all_race_files and CSVParser.load_race_data               *)
(***************************************************************************)
\* sub in s, for two Python strings
Contains(s, sub) ==
  \E i \in 0..(Len(s) - Len(sub)) : SubSeq(s, i + 1, i + Len(sub)) = sub

\* the name matches the pattern '*.csv'
IsCsv(name) == Len(name) >= 4 /\ SubSeq(name, Len(name) - 3, Len(name)) = <<".","c","s","v">>

circuit_map ==
  <<[key |-> <<"b","a","r","b","e","r">>,
     path |-> <<"b","a","r","b","e","r","-","m","o","t","o","r","s","p","o","r","t","s","-","p","a","r","k","/","b","a","r","b","e","r">>],
    [key |-> <<"c","o","t","a">>,
     path |-> <<"c","i","r","c","u","i","t","-","o","f","-","t","h","e","-","a","m","e","r","i","c","a","s","/","C","O","T","A">>],
    [key |-> <<"r","o","a","d","-","a","m","e","r","i","c","a">>,
     path |-> <<"r","o","a","d","-","a","m","e","r","i","c","a","/","R","o","a","d"," ","A","m","e","r","i","c","a">>],
    [key |-> <<"s","e","b","r","i","n","g">>,
     path |-> <<"s","e","b","r","i","n","g","/","S","e","b","r","i","n","g">>],
    [key |-> <<"s","o","n","o","m","a">>,
     path |-> <<"s","o","n","o","m","a","/","S","o","n","o","m","a">>],
    [key |-> <<"v","i","r">>,
     path |-> <<"v","i","r","g","i","n","i","a","-","i","n","t","e","r","n","a","t","i","o","n","a","l","-","r","a","c","e","w","a","y","/","V","I","R">>]>>

\* circuit_map.get(circuit.lower(), circuit)
CircuitRelative(circuit) ==
  IF \E k \in DOMAIN circuit_map : circuit_map[k].key = Lower(circuit)
  THEN circuit_map[CHOOSE k \in DOMAIN circuit_map : circuit_map[k].key = Lower(circuit)].path
  ELSE circuit

\* what is at season_path = base_path / circuit_relative / season.  The tree
\* under base_path holds one entry, tree.kind ("dir" or "file"), at the
\* place tree.at; tree.folders are the entries of the directory in the order
\* iterdir() yields them, each with a name, is_dir and, for a directory, its
\* files in the order glob() yields them.
SeasonPath(tree, circuit, season) ==
  IF <<CircuitRelative(circuit), season>> = tree.at THEN tree.kind ELSE "absent"

\* the first entry of season_path that is a directory named as the session,
\* in any letter case; 0 when there is none (session_path is None)
SessionFolder(tree, session) ==
  IF \E i \in DOMAIN tree.folders :
        tree.folders[i].is_dir /\ Lower(tree.folders[i].name) = Lower(session)
  THEN CHOOSE i \in DOMAIN tree.folders :
         /\ tree.folders[i].is_dir /\ Lower(tree.folders[i].name) = Lower(session)
         /\ \A j \in 1..(i - 1) :
               ~(tree.folders[j].is_dir /\ Lower(tree.folders[j].name) = Lower(session))
  ELSE 0

\* the key the if/elif chain files a name under, "none" when no branch
\* is taken
FileKind(name) ==
  IF Contains(Lower(name), <<"r","e","s","u","l","t">>) \/ Contains(Lower(name), <<"c","l","a","s","s","i","f","i","c","a","t","i","o","n">>)
  THEN "results"
  ELSE IF Contains(Lower(name), <<"w","e","a","t","h","e","r">>) THEN "weather"
  ELSE IF Contains(Lower(name), <<"l","a","p">>) /\ ~Contains(Lower(name), <<"b","e","s","t">>) THEN "laps"
  ELSE IF Contains(Lower(name), <<"b","e","s","t">>) /\ Contains(Lower(name), <<"l","a","p">>) THEN "best_laps"
  ELSE "none"

\* the files of the session folder that glob('*.csv') yields and the chain
\* files under the key
FilesOfKind(files, kind) ==
  {i \in DOMAIN files : IsCsv(files[i].name) /\ FileKind(files[i].name) = kind}

FileKinds == {"results", "weather", "laps", "best_laps"}

\* the dict files after the loop: a later file of a key replaces an earlier
SessionFiles(files) ==
  [kind \in {k \in FileKinds : FilesOfKind(files, k) # {}} |->
     files[CHOOSE i \in FilesOfKind(files, kind) : \A j \in FilesOfKind(files, kind) : j <= i]]

\* {}
NoFiles == [kind \in {} |-> <<>>]

\* get_all_race_files(circuit, season, session): {} without the season path
\* or the session folder; iterdir() raises NotADirectoryError when the
\* season path exists and is not a directory
get_all_race_files(tree, circuit, season, session) ==
  IF SeasonPath(tree, circuit, season) = "absent" THEN [exc |-> FALSE, files |-> NoFiles]
  ELSE IF SeasonPath(tree, circuit, season) = "file" THEN [exc |-> TRUE, files |-> NoFiles]
  ELSE IF SessionFolder(tree, session) = 0 THEN [exc |-> FALSE, files |-> NoFiles]
  ELSE [exc |-> FALSE,
        files |-> SessionFiles(tree.folders[SessionFolder(tree, session)].files)]

\* delimiter: str = ';'
DefaultDelimiter == ";"

\* the parser load_race_data calls for a key
ParsedAs(kind, file) ==
  IF kind = "results" THEN parse_race_results(file, DefaultDelimiter).df
  ELSE IF kind = "weather" THEN parse_weather_data(file, DefaultDelimiter).df
  ELSE IF kind = "laps" THEN parse_lap_times(file, DefaultDelimiter).df
  ELSE parse_best_laps(file, DefaultDelimiter).df

\* data after the four tests: a frame for each key of files
LoadedData(files) == [kind \in DOMAIN files |-> ParsedAs(kind, files[kind].file)]

\* load_race_data(circuit, season, session); an exception of
\* get_all_race_files is not caught
load_race_data(tree, circuit, season, session) ==
  The({IF r.exc THEN [exc |-> TRUE, data |-> NoFiles]
       ELSE [exc |-> FALSE, data |-> LoadedData(r.files)] :
         r \in {get_all_race_files(tree, circuit, season, session)}})

(***************************************************************************)
(* dashboard/app.py: the session load under "if load_data:"                *)
(***************************************************************************)
TIME_UTC_STR == <<"T","I","M","E","_","U","T","C","_","S","T","R">>

\* the columns of the weather table
DisplayWeatherColumns == <<TIME_UTC_STR, AIR_TEMP, TRACK_TEMP, HUMIDITY, WIND_SPEED>>

\* 'key' in race_data and not race_data['key'].empty
Available(race_data, key) == key \in DOMAIN race_data /\ ~IsEmpty(race_data[key])

\* "with tab1:".  A panel ends with what it showed, and exc when one of its
\* statements raised.  generate_race_summary is called inside try/except:
\* its exception is shown and summary = None; col1, col2, col3 are assigned
\* under "if summary:" alone, so the statement "with col2:" after it raises
\* NameError when summary is None.
OverviewPanel(race_data) ==
  IF ~Available(race_data, "results")
  THEN {[exc |-> FALSE, shown |-> <<"no_results">>]}
  ELSE {IF s.exc THEN [exc |-> TRUE, shown |-> <<"summary_error">>]
        ELSE [exc |-> FALSE, shown |-> <<"overview">>] :
          s \in generate_race_summary(race_data)}

\* "with tab2:": the table of the columns present and the battles
ResultsPanel(race_data) ==
  IF ~Available(race_data, "results")
  THEN [exc |-> FALSE, shown |-> <<"no_results">>]
  ELSE [exc |-> FALSE, shown |-> <<"results">>]

\* "with tab3:": weather_df[[...]] raises KeyError when a column of the
\* list is absent
WeatherPanel(race_data) ==
  IF ~Available(race_data, "weather")
  THEN [exc |-> FALSE, shown |-> <<"no_weather">>]
  ELSE IF \A k \in DOMAIN DisplayWeatherColumns :
            HasColumn(race_data["weather"], DisplayWeatherColumns[k])
       THEN [exc |-> FALSE, shown |-> <<"weather">>]
       ELSE [exc |-> TRUE, shown |-> <<>>]

\* "with tab4:": calculate_consistency is called outside any inner try
PerformancePanel(race_data) ==
  IF ~Available(race_data, "best_laps")
  THEN {[exc |-> FALSE, shown |-> <<"no_performance">>]}
  ELSE {IF c.exc THEN [exc |-> TRUE, shown |-> <<>>]
        ELSE IF c.val = <<>> THEN [exc |-> FALSE, shown |-> <<"insufficient">>]
        ELSE [exc |-> FALSE, shown |-> <<"performance">>] :
          c \in calculate_consistency(race_data["best_laps"])}

\* the panels in order from the k-th: an exception leaves the rest
\* unprocessed and reaches "except Exception as e:" of the load, which shows
\* the error
RECURSIVE Through(_, _)
Through(panels, k) ==
  IF k > Len(panels) THEN [shown |-> <<>>, aborted |-> FALSE]
  ELSE IF panels[k].exc
       THEN [shown |-> panels[k].shown \o <<"load_error">>, aborted |-> TRUE]
       ELSE [shown |-> panels[k].shown \o Through(panels, k + 1).shown,
             aborted |-> Through(panels, k + 1).aborted]

\* after race_data is loaded: "No data found" for an empty mapping, else the
\* success message and the four panels
ShowRaceData(race_data) ==
  IF race_data = NoFiles THEN {[shown |-> <<"no_data">>, aborted |-> FALSE]}
  ELSE {[shown |-> <<"success">> \o t.shown, aborted |-> t.aborted] :
          t \in {Through(<<o, ResultsPanel(race_data), WeatherPanel(race_data), p>>, 1) :
                   o \in OverviewPanel(race_data), p \in PerformancePanel(race_data)}}

\* the try block of the load: an exception of load_race_data reaches the
\* same handler
session_load(tree, circuit_key, season, session) ==
  UNION {IF l.exc THEN {[shown |-> <<"load_error">>, aborted |-> TRUE]}
         ELSE ShowRaceData(l.data) :
           l \in {load_race_data(tree, circuit_key, season, session)}}

(***************************************************************************)
(* Inputs of the normalizer and the parsers                                *)
(***************************************************************************)
MaxCols == 2

MaxDataRows == 2

Capitalize(s) ==
  [i \in 1..Len(s) |-> IF i = 1 THEN UpperChar(s[i]) ELSE LowerChar(s[i])]

Padded(s) == <<" ">> \o s \o <<" ">>

\* every alias of the registry
AliasSet == UNION {Range(column_mappings[k].variants) : k \in DOMAIN column_mappings}

\* column names no field lists
UnknownNames ==
  {FL_TIME, GRID, <<"W","e","a","t","h","e","r">>, Padded(<<"g","r","i","d">>), <<"P","O","S"," ","X">>}

\* every alias as declared, in lower case, capitalised and padded with
\* blanks, and the unknown names
NormNames ==
  UNION {{a, Lower(a), Capitalize(a), Padded(a), Padded(Lower(a))} : a \in AliasSet}
    \cup UnknownNames

\* the names of the frames with several columns
SmallNames ==
  {<<"P","O","S">>, <<"p","o","s","i","t","i","o","n">>, <<"C","l","a","s","s","_","T","y","p","e">>, <<"C","L","A","S","S">>,
   Padded(<<"g","r","i","d">>), FL_TIME}

\* a frame with these columns and one row
OneRowFrame(columns) ==
  DataFrame(columns, <<[j \in 1..Len(columns) |-> Num(1000 * j)]>>)

NormFrames ==
  {OneRowFrame(<<n>>) : n \in NormNames}
    \cup {OneRowFrame(c) : c \in UNION {[1..k -> SmallNames] : k \in 2..MaxCols}}

Join2(a, b) == a \o <<";">> \o b

HeaderLines ==
  {Join2(<<"P","O","S">>, NUMBER), Join2(<<"P","O","S">>, POSITION),
   Join2(Padded(<<"P","o","s">>), LAPS), Join2(TIME_UTC_SECONDS, AIR_TEMP),
   Join2(<<"C","a","r">>, TOTAL_DRIVER_LAPS), Join2(FL_TIME, GRID)}

\* the data lines: two fields each, a number, other text or nothing, and the
\* blank line
DataLines ==
  {Join2(<<"1">>, <<"x">>), Join2(<<"x">>, <<"1">>), Join2(<<"1">>, <<"1">>),
   Join2(<<>>, <<>>), <<>>}

Files ==
  {[kind |-> "missing", lines |-> <<>>], [kind |-> "unreadable", lines |-> <<>>],
   [kind |-> "text", lines |-> <<>>]}
    \cup {[kind |-> "text", lines |-> <<h>> \o d] :
            h \in HeaderLines,
            d \in UNION {[1..k -> DataLines] : k \in 0..MaxDataRows}}

Delimiters == {";", ","}

(***************************************************************************)
(* Inputs of the analyzer                                                  *)
(***************************************************************************)
MaxRows == 2

ExtraLapCols == 1

\* the frames of up to MaxRows rows whose row i is Row(i, c) for a choice c
\* of Choices
FramesOf(columns, Choices, Row(_, _)) ==
  {DataFrame(columns, [i \in 1..Len(cs) |-> Row(i, cs[i])]) :
     cs \in UNION {[1..n -> Choices] : n \in 0..MaxRows}}

FirstNames == <<<<"A","n","n">>, <<"B","o","b">>, <<"C","y">>, <<"D","i">>>>

LastNames == <<<<"S","m","i","t","h">>, <<"J","o","n","e","s">>, <<"L","e","e">>, <<"R","o","y">>>>

TeamName == <<"T","G","R">>

ASmith == <<"A","."," ","S","m","i","t","h">>

GapCells ==
  {Str(<<"+","3",".","5","0","0">>), Str(<<"+","7",".","0","0","0">>), Str(<<"-","1",".","0","0","0">>), Str(<<"D","N","F">>), Str(<<"+","-","1",".","0","0","0">>), Str(<<"+","5",".","0","0","0">>), Str(<<"+","a","b","c">>), Str(<<"+","0",".","0","0","0">>),
   Str(<<>>), NaN, Num(3500)}

GapThresholds == {DefaultGapThreshold, 1000}

\* results as parse_race_results names the columns
BattleRow(i, gap) ==
  <<Num(1000 * i), Num(1000 * (20 + i)), Str(FirstNames[i]), Str(LastNames[i]), gap>>

BattleFrames ==
  FramesOf(<<POSITION, NUMBER, DRIVER_FIRST, DRIVER_LAST, GAP_PREV>>, GapCells, BattleRow)
    \cup FramesOf(<<POSITION, NUMBER, DRIVER_FIRST, DRIVER_LAST, FL_TIME>>,
                  {Str(<<"1",":","2","3",".","4","5","6">>)}, BattleRow)

FlCells ==
  {Str(<<"1",":","2","3",".","4","5","6">>), Str(<<"1",":","2","2",".","1","0","0">>), Str(<<"1",":","2","5",".","0","0","0">>), Str(<<"9",":","5","9",".","0","0","0">>), Str(<<"1","0",":","0","1",".","0","0","0">>), NaN}

\* the eight columns analyze_fastest_laps selects, under the names of the
\* results file
RawRow(i, fl) ==
  <<Num(1000 * i), Num(1000 * (20 + i)), Str(FirstNames[i]), Str(LastNames[i]),
    fl, Num(1000 * (3 + i)), Num(150000 + 1000 * i), Str(TeamName)>>

FastestFrames ==
  FramesOf(FastestLapColumns, FlCells, RawRow)
    \cup FramesOf(<<POSITION, NUMBER, DRIVER_FIRST, DRIVER_LAST, FL_TIME, FL_LAPNUM,
                    FL_KPH, TEAM>>, FlCells, RawRow)

GridCells ==
  {Num(5000), Num(1000), Num(2500), NaN,
   Str(<<"5">>), Str(<<"P","I","T">>), Str(<<"5",".","0">>)}

PositionCells == {Num(2000), Num(1000), NaN}

\* the grid cell and the POSITION cell of a row
GridChoices ==
  {<<Num(5000), Num(2000)>>, <<Num(1000), Num(2000)>>, <<Num(2500), Num(1000)>>,
   <<NaN, Num(2000)>>, <<Str(<<"5">>), Num(1000)>>, <<Str(<<"P","I","T">>), Num(2000)>>,
   <<Str(<<"5",".","0">>), Num(2000)>>, <<Num(5000), NaN>>}

GridRow(i, c) ==
  <<c[2], Num(1000 * (20 + i)), Str(FirstNames[i]), Str(LastNames[i]), c[1]>>

NoNumberRow(i, c) == <<c[2], c[1]>>

NoPositionRow(i, c) == <<Num(1000 * (20 + i)), c[1]>>

PositionFrames ==
  FramesOf(<<POSITION, NUMBER, DRIVER_FIRSTNAME, DRIVER_SECONDNAME, GRID>>,
           GridChoices, GridRow)
    \cup FramesOf(<<POSITION, GRID>>, GridChoices, NoNumberRow)
    \cup FramesOf(<<NUMBER, GRID>>, GridCells \X {NaN}, NoPositionRow)
    \cup FramesOf(<<POSITION, NUMBER>>, {NaN} \X PositionCells, NoNumberRow)

LapA == Str(<<"1",":","2","3",".","4","5","6">>)

LapB == Str(<<"1",":","2","2",".","1","0","0">>)

LapCells == {LapA, LapB, NaN, Str(<<"1",":","2","3",":","4","5">>)}

\* the lap columns of the input frames: one more than a record needs
NumLapCols == MinLaps + ExtraLapCols

LapColumnNames == [k \in 1..NumLapCols |-> BestLapColumn(k)]

BestLapsRow(i, laps) ==
  <<Num(1000 * (20 + i)), Str(FirstNames[i]), Str(LastNames[i]), Str(TeamName)>> \o laps

UnnumberedRow(i, laps) == <<Str(FirstNames[i]), Str(LastNames[i])>> \o laps

\* the lap cells of the frames of several rows: equal laps, two different
\* laps, too few laps
SomeLaps ==
  {[k \in 1..NumLapCols |-> LapA],
   [k \in 1..NumLapCols |-> IF k = 1 THEN LapB ELSE LapA],
   [k \in 1..NumLapCols |-> IF k % 2 = 1 THEN LapA ELSE LapB],
   [k \in 1..NumLapCols |-> IF k < MinLaps THEN LapA ELSE NaN],
   [k \in 1..NumLapCols |-> IF k < MinLaps THEN LapA ELSE Str(<<"D","N","F">>)],
   [k \in 1..NumLapCols |-> IF k <= MinLaps THEN LapB ELSE Str(<<"x",":","1">>)]}

BestLapsFrames ==
  {DataFrame(<<NUMBER, FIRSTNAME, SECONDNAME, TEAM>> \o LapColumnNames,
             <<BestLapsRow(1, laps)>>) : laps \in [1..NumLapCols -> LapCells]}
    \cup {DataFrame(<<FIRSTNAME, SECONDNAME>> \o LapColumnNames,
                    <<UnnumberedRow(1, laps)>>) : laps \in [1..NumLapCols -> LapCells]}
    \cup FramesOf(<<NUMBER, FIRSTNAME, SECONDNAME, TEAM>> \o LapColumnNames,
                  SomeLaps, BestLapsRow)

\* the DRIVER, POSITION, FL_TIME and GAP_PREV cells of a row
SummaryChoices ==
  {<<Str(ASmith), Num(1000), LapA, Str(<<"+","3",".","5","0","0">>)>>,
   <<Str(ASmith), Num(2000), LapB, Str(<<"+","7",".","0","0","0">>)>>,
   <<Str(ASmith), Num(2000), LapA, Str(<<"+","3",".","5","0","0">>)>>,
   <<Str(<<>>), Num(1000), LapB, Str(<<"+","3",".","5","0","0">>)>>,
   <<Str(<<>>), Num(2000), LapA, Str(<<"+","7",".","0","0","0">>)>>,
   <<NaN, Num(2000), LapA, Str(<<"+","3",".","5","0","0">>)>>}

\* a results frame without FL_TIME
PlainRow(i, c) ==
  <<c[2], Num(1000 * (20 + i)), c[1], Str(TeamName), Num(1000 * (30 - i)), c[4]>>

\* a results frame with the columns of the results file
FullRow(i, c) ==
  <<c[2], Num(1000 * (20 + i)), c[1], Str(FirstNames[i]), Str(LastNames[i]), c[3],
    Num(1000 * (3 + i)), Num(150000 + 1000 * i), Str(TeamName), c[4]>>

SummaryFrames ==
  FramesOf(<<POSITION, NUMBER, DRIVER, TEAM, LAPS, GAP_PREV>>, SummaryChoices, PlainRow)
    \cup FramesOf(<<POSITION, NUMBER, DRIVER, DRIVER_FIRSTNAME, DRIVER_SECONDNAME,
                    FL_TIME, FL_LAPNUM, FL_KPH, TEAM, GAP_PREV>>, SummaryChoices, FullRow)
    \cup FramesOf(<<POSITION, NUMBER, DRIVER, DRIVER_FIRST, DRIVER_LAST,
                    FL_TIME, FL_LAPNUM, FL_KPH, TEAM, GAP_PREV>>, SummaryChoices, FullRow)

\* race_data: with or without the results
RaceData ==
  {[kind \in {"results"} |-> df] : df \in SummaryFrames}
    \cup {[kind \in {"weather"} |-> EmptyFrame]}

(***************************************************************************)
(* The calls                                                               *)
(***************************************************************************)
\* op names the call made, "start" before it; arg holds the caller's
\* arguments as passed, after the same objects as the call leaves them, ret
\* the value returned and raised whether an exception reached the caller
Init ==
  /\ op = "start"
  /\ arg = <<>>
  /\ after = <<>>
  /\ ret = <<>>
  /\ raised = FALSE

NormalizeColumns ==
  /\ op = "start"
  /\ \E df \in NormFrames :
       /\ op' = "normalize_columns"
       /\ arg' = [df |-> df]
       /\ \E r \in {normalize_columns(df)} :
            /\ after' = [df |-> r.caller]
            /\ ret' = r.result
       /\ raised' = FALSE

\* the parsers: the file and the delimiter are the caller's, the frame is
\* made by the call
ParseRaceResults ==
  /\ op = "start"
  /\ \E file \in Files, delim \in Delimiters :
       /\ op' = "parse_race_results"
       /\ arg' = [file |-> file, delimiter |-> delim]
       /\ after' = [file |-> file, delimiter |-> delim]
       /\ \E r \in {parse_race_results(file, delim)} :
            /\ ret' = r.df
            /\ raised' = r.exc

ParseWeatherData ==
  /\ op = "start"
  /\ \E file \in Files, delim \in Delimiters :
       /\ op' = "parse_weather_data"
       /\ arg' = [file |-> file, delimiter |-> delim]
       /\ after' = [file |-> file, delimiter |-> delim]
       /\ \E r \in {parse_weather_data(file, delim)} :
            /\ ret' = r.df
            /\ raised' = r.exc

ParseLapTimes ==
  /\ op = "start"
  /\ \E file \in Files, delim \in Delimiters :
       /\ op' = "parse_lap_times"
       /\ arg' = [file |-> file, delimiter |-> delim]
       /\ after' = [file |-> file, delimiter |-> delim]
       /\ \E r \in {parse_lap_times(file, delim)} :
            /\ ret' = r.df
            /\ raised' = r.exc

ParseBestLaps ==
  /\ op = "start"
  /\ \E file \in Files, delim \in Delimiters :
       /\ op' = "parse_best_laps"
       /\ arg' = [file |-> file, delimiter |-> delim]
       /\ after' = [file |-> file, delimiter |-> delim]
       /\ \E r \in {parse_best_laps(file, delim)} :
            /\ ret' = r.df
            /\ raised' = r.exc

IdentifyKeyBattles ==
  /\ op = "start"
  /\ \E df \in BattleFrames, gap_threshold \in GapThresholds :
       /\ op' = "identify_key_battles"
       /\ arg' = [df |-> df, gap_threshold |-> gap_threshold]
       /\ after' = [df |-> df, gap_threshold |-> gap_threshold]
       /\ ret' = identify_key_battles(df, gap_threshold)
       /\ raised' = FALSE

AnalyzeFastestLaps ==
  /\ op = "start"
  /\ \E df \in FastestFrames :
       /\ op' = "analyze_fastest_laps"
       /\ arg' = [df |-> df]
       /\ \E r \in analyze_fastest_laps(df) :
            /\ after' = [df |-> r.caller]
            /\ ret' = r.df
            /\ raised' = r.exc

CalculateConsistency ==
  /\ op = "start"
  /\ \E df \in BestLapsFrames :
       /\ op' = "calculate_consistency"
       /\ arg' = [df |-> df]
       /\ after' = [df |-> df]
       /\ \E r \in calculate_consistency(df) :
            /\ ret' = r.val
            /\ raised' = r.exc

GetPositionChanges ==
  /\ op = "start"
  /\ \E df \in PositionFrames :
       /\ op' = "get_position_changes"
       /\ arg' = [df |-> df, grid_position_col |-> GRID]
       /\ after' = [df |-> df, grid_position_col |-> GRID]
       /\ ret' = get_position_changes(df, GRID)
       /\ raised' = FALSE

GenerateRaceSummary ==
  /\ op = "start"
  /\ \E race_data \in RaceData :
       /\ op' = "generate_race_summary"
       /\ arg' = [race_data |-> race_data]
       /\ \E r \in generate_race_summary(race_data) :
            /\ after' = [race_data |-> r.caller]
            /\ ret' = r.val
            /\ raised' = r.exc

\* the STATUS and LAPS cells of a row
ProgressionChoices ==
  {<<Str(Classified), Num(20000)>>, <<Str(<<"D","N","F">>), Num(12000)>>,
   <<Str(<<"c","l","a","s","s","i","f","i","e","d">>), Num(20000)>>, <<NaN, NaN>>}

StatusRow(i, c) == <<Num(1000 * i), c[1], c[2]>>

NoStatusRow(i, c) == <<Num(1000 * i), c[2]>>

NoLapsRow(i, c) == <<Num(1000 * i), c[1]>>

CLASS_TYPE == <<"C","L","A","S","S","_","T","Y","P","E">>

ClassTypeRow(i, c) == <<Num(1000 * i), c[1], Str(<<"A","m">>), c[2]>>

\* the last frames are results with STATUS and CLASS_TYPE as the parser's
\* normalize_columns returns them
ProgressionFrames ==
  FramesOf(<<POSITION, STATUS, LAPS>>, ProgressionChoices, StatusRow)
    \cup FramesOf(<<POSITION, LAPS>>, ProgressionChoices, NoStatusRow)
    \cup FramesOf(<<POSITION, STATUS>>, ProgressionChoices, NoLapsRow)
    \cup {normalize_columns(f).result :
            f \in FramesOf(<<POSITION, STATUS, CLASS_TYPE, LAPS>>,
                           ProgressionChoices, ClassTypeRow)}

AnalyzeRaceProgression ==
  /\ op = "start"
  /\ \E df \in ProgressionFrames :
       /\ op' = "analyze_race_progression"
       /\ arg' = [df |-> df]
       /\ after' = [df |-> df]
       /\ \E r \in analyze_race_progression(df) :
            /\ ret' = r.val
            /\ raised' = r.exc

\* the most entries of a session folder and of a season directory
MaxFiles == 2

MaxFolders == 2

\* the files a session folder may hold: one or two of a key, one of no key
\* and one that is no .csv file
SessionFileChoices ==
  {[name |-> <<"0","3","_","R","e","s","u","l","t","s",".","c","s","v">>,
    file |-> [kind |-> "text", lines |-> <<<<"P","O","S",";","N","U","M","B","E","R">>, <<"1",";","7">>>>]],
   [name |-> <<"C","l","a","s","s","i","f","i","c","a","t","i","o","n",".","c","s","v">>,
    file |-> [kind |-> "text", lines |-> <<<<"P","O","S",";","L","A","P","S">>, <<"1",";","2","0">>>>]],
   [name |-> <<"w","e","a","t","h","e","r",".","c","s","v">>,
    file |-> [kind |-> "text", lines |-> <<<<"T","I","M","E","_","U","T","C","_","S","E","C","O","N","D","S",";","A","I","R","_","T","E","M","P">>, <<"1",";","1">>>>]],
   [name |-> <<"l","a","p","_","t","i","m","e","s",".","c","s","v">>,
    file |-> [kind |-> "text", lines |-> <<<<"N","U","M","B","E","R",";","L","A","P","S">>, <<"7",";","1">>>>]],
   [name |-> <<"b","e","s","t","_","l","a","p","s",".","c","s","v">>,
    file |-> [kind |-> "text", lines |-> <<<<"N","U","M","B","E","R",";","T","O","T","A","L","_","D","R","I","V","E","R","_","L","A","P","S">>, <<"7",";","2","0">>>>]],
   [name |-> <<"n","o","t","e","s",".","c","s","v">>,
    file |-> [kind |-> "text", lines |-> <<<<"x",";","y">>>>]],
   [name |-> <<"r","e","s","u","l","t","s",".","t","x","t">>,
    file |-> [kind |-> "text", lines |-> <<<<"P","O","S",";","N","U","M","B","E","R">>>>]]}

FileLists == UNION {[1..k -> SessionFileChoices] : k \in 0..MaxFiles}

TheSeason == <<"2","0","2","5"," ","s","e","a","s","o","n">>

TheCircuit == <<"s","e","b","r","i","n","g","/","S","e","b","r","i","n","g">>

\* the session folder "Race 1" with the files given
RaceOne(files) == [name |-> <<"R","a","c","e"," ","1">>, is_dir |-> TRUE, files |-> files]

\* the entries a season directory may hold beside it: a plain file of the
\* session's name, a folder of the name in capitals and another session
FolderChoices(files) ==
  {RaceOne(files),
   [name |-> <<"r","a","c","e"," ","1">>, is_dir |-> FALSE, files |-> <<>>],
   [name |-> <<"R","A","C","E"," ","1">>, is_dir |-> TRUE,
    files |-> <<CHOOSE e \in SessionFileChoices : e.name = <<"w","e","a","t","h","e","r",".","c","s","v">>>>],
   [name |-> <<"R","a","c","e"," ","2">>, is_dir |-> TRUE, files |-> <<>>]}

FolderLists(files) == UNION {[1..k -> FolderChoices(files)] : k \in 0..MaxFolders}

\* the trees: the season path a directory of some entries, or of the session
\* folder with some files, or a plain file
Trees ==
  {[at |-> <<TheCircuit, TheSeason>>, kind |-> "dir", folders |-> f] :
     f \in FolderLists(<<CHOOSE e \in SessionFileChoices : e.name = <<"0","3","_","R","e","s","u","l","t","s",".","c","s","v">>>>)}
    \cup {[at |-> <<TheCircuit, TheSeason>>, kind |-> "dir", folders |-> <<RaceOne(l)>>] :
            l \in FileLists}
    \cup {[at |-> <<TheCircuit, TheSeason>>, kind |-> "file", folders |-> <<>>]}

\* the circuit as the key in capitals, as the path itself and as another
\* circuit's key
Circuits == {<<"S","E","B","R","I","N","G">>, TheCircuit, <<"v","i","r">>}

Sessions == {<<"r","a","c","e"," ","1">>, <<"R","a","c","e"," ","3">>}

GetAllRaceFiles ==
  /\ op = "start"
  /\ \E tree \in Trees, circuit \in Circuits, session \in Sessions :
       /\ op' = "get_all_race_files"
       /\ arg' = [tree |-> tree, circuit |-> circuit, season |-> TheSeason,
                  session |-> session]
       /\ after' = arg'
       /\ \E r \in {get_all_race_files(tree, circuit, TheSeason, session)} :
            /\ ret' = r.files
            /\ raised' = r.exc

LoadRaceData ==
  /\ op = "start"
  /\ \E tree \in Trees, circuit \in Circuits, session \in Sessions :
       /\ op' = "load_race_data"
       /\ arg' = [tree |-> tree, circuit |-> circuit, season |-> TheSeason,
                  session |-> session]
       /\ after' = arg'
       /\ \E r \in {load_race_data(tree, circuit, TheSeason, session)} :
            /\ ret' = r.data
            /\ raised' = r.exc

\* the files of a session the dashboard loads: results with and without
\* FL_TIME, weather with and without the columns of the table, best laps
\* with and without NUMBER
LoadedFileChoices ==
  {[name |-> <<"r","e","s","u","l","t","s",".","c","s","v">>,
    file |-> [kind |-> "text", lines |-> <<<<"P","O","S",";","N","U","M","B","E","R",";","F","L","_","T","I","M","E">>, <<"1",";","7",";","1",":","4","0",".","0","0","0">>>>]],
   [name |-> <<"r","e","s","u","l","t","s",".","c","s","v">>,
    file |-> [kind |-> "text", lines |-> <<<<"P","O","S",";","N","U","M","B","E","R">>, <<"1",";","7">>>>]],
   [name |-> <<"w","e","a","t","h","e","r",".","c","s","v">>,
    file |-> [kind |-> "text", lines |-> <<<<"T","I","M","E","_","U","T","C","_","S","T","R",";","A","I","R","_","T","E","M","P",";","T","R","A","C","K","_","T","E","M","P",";","H","U","M","I","D","I","T","Y",";","W","I","N","D","_","S","P","E","E","D">>, <<"x",";","1",";","1",";","1",";","1">>>>]],
   [name |-> <<"w","e","a","t","h","e","r",".","c","s","v">>,
    file |-> [kind |-> "text", lines |-> <<<<"T","I","M","E","_","U","T","C","_","S","E","C","O","N","D","S",";","A","I","R","_","T","E","M","P">>, <<"1",";","1">>>>]],
   [name |-> <<"b","e","s","t","_","l","a","p","s",".","c","s","v">>,
    file |-> [kind |-> "text", lines |-> <<<<"N","U","M","B","E","R",";","B","E","S","T","L","A","P","_","1",";","B","E","S","T","L","A","P","_","2",";","B","E","S","T","L","A","P","_","3">>, <<"7",";","1",":","4","0",".","0","0","0",";","1",":","4","1",".","0","0","0",";","1",":","4","2",".","0","0","0">>>>]],
   [name |-> <<"b","e","s","t","_","l","a","p","s",".","c","s","v">>,
    file |-> [kind |-> "text", lines |-> <<<<"D","R","I","V","E","R","_","I","D",";","B","E","S","T","L","A","P","_","1",";","B","E","S","T","L","A","P","_","2",";","B","E","S","T","L","A","P","_","3">>, <<"7",";","1",":","4","0",".","0","0","0",";","1",":","4","1",".","0","0","0",";","1",":","4","2",".","0","0","0">>>>]]}

LoadedFileLists == UNION {[1..k -> LoadedFileChoices] : k \in 0..MaxFiles}

\* the session folder with the files, and the season path a plain file
LoadedTrees ==
  {[at |-> <<TheCircuit, TheSeason>>, kind |-> "dir",
    folders |-> <<RaceOne(l), [name |-> <<"R","a","c","e"," ","2">>, is_dir |-> TRUE, files |-> <<>>]>>] :
     l \in LoadedFileLists}
    \cup {[at |-> <<TheCircuit, TheSeason>>, kind |-> "file", folders |-> <<>>]}

\* circuits[selected_circuit], selected_session
CircuitKeys == {<<"s","e","b","r","i","n","g">>, <<"v","i","r">>}

SelectedSessions == {<<"r","a","c","e"," ","1">>, <<"r","a","c","e"," ","2">>}

SessionLoad ==
  /\ op = "start"
  /\ \E tree \in LoadedTrees, circuit \in CircuitKeys, session \in SelectedSessions :
       /\ op' = "session_load"
       /\ arg' = [tree |-> tree, circuit |-> circuit, season |-> TheSeason,
                  session |-> session]
       /\ after' = arg'
       /\ \E r \in session_load(tree, circuit, TheSeason, session) :
            /\ ret' = r.shown
            /\ raised' = r.aborted

Next ==
  \/ NormalizeColumns
  \/ ParseRaceResults
  \/ ParseWeatherData
  \/ ParseLapTimes
  \/ ParseBestLaps
  \/ IdentifyKeyBattles
  \/ AnalyzeFastestLaps
  \/ CalculateConsistency
  \/ GetPositionChanges
  \/ GenerateRaceSummary
  \/ AnalyzeRaceProgression
  \/ GetAllRaceFiles
  \/ LoadRaceData
  \/ SessionLoad

Spec == Init /\ [][Next]_vars

(***************************************************************************)
(* Claims                                                                  *)
(***************************************************************************)
\* the fields of the registry that list the name as an alias, in any case
ListingFields(name) ==
  {k \in DOMAIN column_mappings :
     \E a \in DOMAIN column_mappings[k].variants :
        Upper(column_mappings[k].variants[a]) = Upper(name)}

MinOf(S) == CHOOSE x \in S : \A y \in S : x <= y

C2_InputColumnsKept ==
  op = "normalize_columns" => after.df.columns = arg.df.columns

ParserCalls ==
  {"parse_race_results", "parse_weather_data", "parse_lap_times", "parse_best_laps"}

\* C3: no parser call raises to its caller, whatever the file and the
\* delimiter; a missing or unreadable file gives an empty table, and a file
\* of a header and no data row gives a table of zero rows.
C3_ParsersNeverRaise ==
  op \in ParserCalls =>
    /\ ~raised
    /\ arg.file.kind # "text" => ret = EmptyFrame
    /\ (arg.file.kind = "text" /\ Len(NonBlank(arg.file.lines)) <= 1)
          => Len(ret.rows) = 0

\* C3 witness: a parser was called on a missing file and returned the empty
\* table.
C3_Witness ==
  /\ op \in ParserCalls
  /\ arg.file.kind = "missing"
  /\ ~raised
  /\ ret = EmptyFrame

\* C4 as stated: parse_race_results keeps every data row of the file, and a
\* cell of POSITION, NUMBER or LAPS holds the number its text denotes, or is
\* missing when the text is not a number; the parse does not fail.
C4_RowsRetained ==
  (op = "parse_race_results" /\ arg.file.kind = "text"
     /\ NonBlank(arg.file.lines) # <<>>) =>
    /\ ~raised
    /\ Len(ret.rows) = Len(NonBlank(arg.file.lines)) - 1
    /\ \A i \in DOMAIN ret.rows : \A j \in DOMAIN ret.columns :
          ret.columns[j] \in {POSITION, NUMBER, LAPS} =>
            IF ParseFloat(TextsOf(arg.file, arg.delimiter)[i][j]).ok
            THEN ret.rows[i][j] = Num(ParseFloat(TextsOf(arg.file, arg.delimiter)[i][j]).v)
            ELSE ret.rows[i][j] = NaN

\* the k-th smallest member of a set of numbers
NthOf(S, k) == CHOOSE i \in S : Cardinality({j \in S : j < i}) = k - 1

\* the cell is a string of a '+' and a number
PlusNumber(c) ==
  /\ c.t = "str"
  /\ StartsWith(c.s, "+")
  /\ ParseFloat(Tail(c.s)).ok

\* the rows other than the first whose GAP_PREV is a '+' and a number g with
\* 0 <= g <= gap_threshold
CloseRows(df, gap_threshold) ==
  {i \in 2..Len(df.rows) :
     /\ PlusNumber(Get(df, i, GAP_PREV, NaN))
     /\ 0 <= ParseFloat(Tail(Get(df, i, GAP_PREV, NaN).s)).v
     /\ ParseFloat(Tail(Get(df, i, GAP_PREV, NaN).s)).v <= gap_threshold}

\* C5 as stated: identify_key_battles returns, in row order, one battle for
\* each row other than the first whose GAP_PREV is a '+' and a number g with
\* 0 <= g <= gap_threshold, with gap g, and returns nothing else; no battle
\* has a negative gap or a gap above the threshold.
C5_BattlesAreCloseRows ==
  op = "identify_key_battles" =>
    /\ \A k \in DOMAIN ret : 0 <= ret[k].gap /\ ret[k].gap <= arg.gap_threshold
    /\ Len(ret) = Cardinality(CloseRows(arg.df, arg.gap_threshold))
    /\ \A k \in DOMAIN ret :
          /\ ret[k].position =
               Get(arg.df, NthOf(CloseRows(arg.df, arg.gap_threshold), k), POSITION, NaN)
          /\ ret[k].gap =
               ParseFloat(Tail(Get(arg.df, NthOf(CloseRows(arg.df, arg.gap_threshold), k),
                                   GAP_PREV, NaN).s)).v

\* the battles returned for row i, which POSITION tells apart
BattlesOfRow(i) ==
  {k \in DOMAIN ret : ret[k].position = Get(arg.df, i, POSITION, NaN)}

\* C6: with gap_threshold 5.0, a row whose GAP_PREV does not start with '+'
\* ("-1.000", "DNF", empty, missing) or is no number after the '+' yields no
\* battle and the call does not raise; a row after the first with "+3.500"
\* yields one battle of gap 3.5, and a row with "+7.000" yields none.
C6_OnlyPlusNumbersBattle ==
  (op = "identify_key_battles" /\ arg.gap_threshold = 5000
     /\ HasColumn(arg.df, GAP_PREV)) =>
    /\ ~raised
    /\ \A i \in DOMAIN arg.df.rows :
          /\ ~PlusNumber(Get(arg.df, i, GAP_PREV, NaN)) => BattlesOfRow(i) = {}
          /\ Get(arg.df, i, GAP_PREV, NaN) = Str(<<"+","7",".","0","0","0">>)
                => BattlesOfRow(i) = {}
          /\ (i > 1 /\ Get(arg.df, i, GAP_PREV, NaN) = Str(<<"+","3",".","5","0","0">>))
                => /\ Cardinality(BattlesOfRow(i)) = 1
                   /\ \A k \in BattlesOfRow(i) : ret[k].gap = 3500

\* C6 witness: with the threshold 5.0 a first row "-1.000" gave no battle and
\* a second row "+3.500" gave the one battle returned, of gap 3.5.
C6_Witness ==
  /\ op = "identify_key_battles"
  /\ arg.gap_threshold = 5000
  /\ Len(arg.df.rows) = 2
  /\ Get(arg.df, 1, GAP_PREV, NaN) = Str(<<"-","1",".","0","0","0">>)
  /\ Get(arg.df, 2, GAP_PREV, NaN) = Str(<<"+","3",".","5","0","0">>)
  /\ ~raised
  /\ Len(ret) = 1
  /\ ret[1].gap = 3500
  /\ ret[1].position = Get(arg.df, 2, POSITION, NaN)

\* the lap time of an FL_TIME cell, in thousandths of a second
LapTimeOf(c) == LapSeconds(StrOf(c)).v

\* C7 as stated, for a table that has rows and every column the analysis
\* selects: analyze_fastest_laps returns every input row once, in ascending
\* order of the lap time FL_TIME, with FL_RANK 1, 2, ..., n in output order.
C7_RankedByLapTime ==
  (op = "analyze_fastest_laps" /\ ~IsEmpty(arg.df)
     /\ \A j \in DOMAIN FastestLapColumns : HasColumn(arg.df, FastestLapColumns[j])) =>
    /\ ~raised
    /\ Len(ret.rows) = Len(arg.df.rows)
    /\ \A k \in DOMAIN ret.rows : Get(ret, k, FL_RANK, NaN) = Num(1000 * k)
    /\ \E p \in Perms(Len(arg.df.rows)) :
          \A k \in DOMAIN ret.rows :
             /\ ret.index[k] = arg.df.index[p[k]]
             /\ Get(ret, k, FL_TIME, NaN) = Get(arg.df, p[k], FL_TIME, NaN)
             /\ Get(ret, k, POSITION, NaN) = Get(arg.df, p[k], POSITION, NaN)
    /\ \A k, m \in DOMAIN ret.rows :
          (k < m /\ NotNa(Get(ret, k, FL_TIME, NaN)) /\ NotNa(Get(ret, m, FL_TIME, NaN)))
            => LapTimeOf(Get(ret, k, FL_TIME, NaN)) <= LapTimeOf(Get(ret, m, FL_TIME, NaN))

\* the rows with at least 3 of BESTLAP_1..BESTLAP_10 read as lap times
ThreeLapRows(df) == {i \in DOMAIN df.rows : Cardinality(TimedLaps(df, i)) >= 3}

\* the name calculate_consistency gives the driver of row i
DriverOfRow(df, i) ==
  Str(StrOf(Get(df, i, FIRSTNAME, Str(<<>>))) \o <<" ">> \o StrOf(Get(df, i, SECONDNAME, Str(<<>>))))

\* C8 as stated: a driver row is in the output of calculate_consistency if
\* and only if at least 3 of its fields BESTLAP_1..BESTLAP_10 are read as lap
\* times; no error is reported for a driver with fewer, and the call returns.
C8_InOutputIffThreeLaps ==
  op = "calculate_consistency" =>
    /\ ~raised
    /\ Len(ret) = Cardinality(ThreeLapRows(arg.df))
    /\ \A i \in DOMAIN arg.df.rows :
          (\E k \in DOMAIN ret : ret[k].driver = DriverOfRow(arg.df, i))
            <=> i \in ThreeLapRows(arg.df)

\* the rows whose grid cell and POSITION cell int() both read as a number
NumberedRows(df, grid_position_col) ==
  {i \in DOMAIN df.rows :
     /\ IntOf(Get(df, i, grid_position_col, NaN)).ok
     /\ IntOf(Get(df, i, POSITION, NaN)).ok}

\* C9 as stated: get_position_changes returns exactly one record for each row
\* whose grid field and POSITION field are both numbers, with positions_gained
\* = start_position - finish_position, leaves the other rows out without
\* raising, and orders the records by positions_gained descending.
C9_NumberedRowsByGain ==
  op = "get_position_changes" =>
    /\ ~raised
    /\ Len(ret) = Cardinality(NumberedRows(arg.df, arg.grid_position_col))
    /\ \A i \in NumberedRows(arg.df, arg.grid_position_col) :
          \E k \in DOMAIN ret :
             /\ ret[k].start_position = IntOf(Get(arg.df, i, arg.grid_position_col, NaN)).v
             /\ ret[k].finish_position = IntOf(Get(arg.df, i, POSITION, NaN)).v
    /\ \A k \in DOMAIN ret :
          ret[k].positions_gained = ret[k].start_position - ret[k].finish_position
    /\ \A k, m \in DOMAIN ret :
          k < m => ret[k].positions_gained >= ret[m].positions_gained

\* C10 as stated: for results with rows, generate_race_summary returns a
\* summary whose winner is the first row of the table as supplied, whatever
\* the POSITION values; with DRIVER "A. Smith" in the first row the winner's
\* driver is "A. Smith".
C10_WinnerIsFirstRow ==
  (op = "generate_race_summary" /\ "results" \in DOMAIN arg.race_data
     /\ ~IsEmpty(arg.race_data["results"])) =>
    /\ ~raised
    /\ ~ret.winner.none
    /\ ret.winner.car_number = Get(arg.race_data["results"], 1, NUMBER, NaN)
    /\ Get(arg.race_data["results"], 1, DRIVER, NaN) = Str(ASmith)
          => ret.winner.driver = Str(ASmith)

\* the columns analyze_fastest_laps selects besides FL_TIME
OtherFastestLapColumns == Range(FastestLapColumns) \ {FL_TIME}

\* C11 as stated: an analyzer computation given a table without a field it
\* requires returns an empty or null result and does not raise:
\* analyze_fastest_laps with FL_TIME but without another selected column,
\* calculate_consistency without NUMBER, analyze_race_progression without
\* STATUS, and generate_race_summary on such results.
C11_MissingFieldGivesEmpty ==
  /\ (op = "analyze_fastest_laps" /\ HasColumn(arg.df, FL_TIME)
        /\ \E c \in OtherFastestLapColumns : ~HasColumn(arg.df, c))
       => (~raised /\ IsEmpty(ret))
  /\ (op = "calculate_consistency" /\ ~HasColumn(arg.df, NUMBER))
       => (~raised /\ ret = <<>>)
  /\ (op = "analyze_race_progression" /\ ~HasColumn(arg.df, STATUS))
       => (~raised /\ ret = EmptyAnalysis)
  /\ (op = "generate_race_summary" /\ "results" \in DOMAIN arg.race_data
        /\ HasColumn(arg.race_data["results"], FL_TIME)
        /\ \E c \in OtherFastestLapColumns : ~HasColumn(arg.race_data["results"], c))
       => ~raised

AnalyzerCalls ==
  {"generate_race_summary", "identify_key_battles", "analyze_fastest_laps",
   "calculate_consistency", "get_position_changes"}

\* C12: an analyzer call leaves its input table as it was (columns, rows,
\* row labels and order), whether it returns or raises, and FL_RANK is a
\* column of the returned table only.
C12_InputTablesUnchanged ==
  op \in AnalyzerCalls =>
    /\ after = arg
    /\ (op = "analyze_fastest_laps" /\ ~raised /\ ~IsEmpty(ret))
          => (HasColumn(ret, FL_RANK) /\ ~HasColumn(after.df, FL_RANK))

\* C12 witness: analyze_fastest_laps returned two rows in another order than
\* the input's, with FL_RANK, and the input table is as it was.
C12_Witness ==
  /\ op = "analyze_fastest_laps"
  /\ ~raised
  /\ Len(ret.rows) = 2
  /\ ret.index # arg.df.index
  /\ HasColumn(ret, FL_RANK)
  /\ after.df = arg.df

\* the season directory of the call exists
SeasonDirectoryExists ==
  /\ <<CircuitRelative(arg.circuit), arg.season>> = arg.tree.at
  /\ arg.tree.kind = "dir"

\* the directories under the season directory named as the session label,
\* letter case apart
MatchingDirectories ==
  {i \in DOMAIN arg.tree.folders :
     /\ arg.tree.folders[i].is_dir
     /\ Lower(arg.tree.folders[i].name) = Lower(arg.session)}

\* C14 as stated: get_all_race_files returns an empty mapping, without
\* raising, whenever the season directory does not exist or no directory
\* under it matches the session label; the session directory is matched in
\* any letter case, and when it is found every key of the result is one of
\* results, weather, laps, best_laps.
C14_EmptyMappingWhenNotLocated ==
  op = "get_all_race_files" =>
    /\ (~SeasonDirectoryExists \/ MatchingDirectories = {})
          => (~raised /\ ret = NoFiles)
    /\ (SeasonDirectoryExists /\ MatchingDirectories # {})
          => /\ ~raised
             /\ DOMAIN ret \subseteq {"results", "weather", "laps", "best_laps"}
             /\ \A k \in DOMAIN ret :
                   \E i \in MatchingDirectories :
                      \E j \in DOMAIN arg.tree.folders[i].files :
                         ret[k] = arg.tree.folders[i].files[j]

\* the data kinds whose file the session locator finds for the call's
\* arguments
LocatedKinds ==
  DOMAIN get_all_race_files(arg.tree, arg.circuit, arg.season, arg.session).files

\* C13 as stated: load_race_data returns, without error, a data set for
\* exactly the data kinds whose file the session locator found, so an empty
\* mapping when no file is located and only the located kinds when some are;
\* the dashboard reports the empty mapping as "no data found".
C13_DataForLocatedKinds ==
  /\ op = "load_race_data" =>
       /\ ~raised
       /\ DOMAIN ret = LocatedKinds
       /\ LocatedKinds = {} => ret = NoFiles
  /\ (op = "session_load" /\ LocatedKinds = {}) => ret = <<"no_data">>

\* what the results, weather and performance panels show when processed
ResultsShown == {"results", "no_results"}

WeatherShown == {"weather", "no_weather"}

PerformanceShown == {"performance", "insufficient", "no_performance"}

\* C19 as stated: in the dashboard's session load, when generate_race_summary
\* raises, the fault is reported once, the results, weather and performance
\* panels are still processed after it, and the fault does not reach the
\* outermost handler of the load.
C19_FaultReportedLoadContinues ==
  (op = "session_load" /\ \E k \in DOMAIN ret : ret[k] = "summary_error") =>
    /\ Cardinality({k \in DOMAIN ret : ret[k] = "summary_error"}) = 1
    /\ ~raised
    /\ \A k \in DOMAIN ret : ret[k] # "load_error"
    /\ \E k, m, n \in DOMAIN ret :
          /\ ret[k] = "summary_error" /\ k < m /\ m < n
          /\ ret[m] \in WeatherShown
          /\ ret[n] \in PerformanceShown
          /\ \E j \in (k + 1)..(m - 1) : ret[j] \in ResultsShown

\* C15: when a column's name is an alias of two fields of the registry, the
\* column is renamed to the field declared first and to no later one
\* (CLASS_TYPE, listed under status and class, becomes STATUS, never CLASS),
\* and a column is renamed at most once: its new name is its own name or the
\* name of a field that lists it, and the table keeps its number of columns.
C15_FirstDeclaredFieldWins ==
  op = "normalize_columns" =>
    /\ Len(ret.columns) = Len(arg.df.columns)
    /\ \A j \in DOMAIN arg.df.columns :
          /\ Cardinality(ListingFields(Strip(arg.df.columns[j]))) >= 2
                => \A k \in ListingFields(Strip(arg.df.columns[j])) :
                      (ret.columns[j] = Upper(column_mappings[k].name))
                        <=> (\A m \in ListingFields(Strip(arg.df.columns[j])) : k <= m)
          /\ Upper(Strip(arg.df.columns[j])) = <<"C","L","A","S","S","_","T","Y","P","E">>
                => (ret.columns[j] = STATUS /\ ret.columns[j] # <<"C","L","A","S","S">>)
          /\ ret.columns[j] \in
               {Strip(arg.df.columns[j])}
                 \cup {Upper(column_mappings[k].name) :
                         k \in ListingFields(Strip(arg.df.columns[j]))}

\* C15 witness: of the columns Class_Type and CLASS the first became STATUS
\* and the second stayed CLASS.
C15_Witness ==
  /\ op = "normalize_columns"
  /\ arg.df.columns = <<<<"C","l","a","s","s","_","T","y","p","e">>, <<"C","L","A","S","S">>>>
  /\ ret.columns = <<STATUS, <<"C","L","A","S","S">>>>

\* C20: normalizing the table normalize_columns returned gives the same
\* column names again (and the same table).
C20_NormalizeIdempotent ==
  op = "normalize_columns" =>
    /\ normalize_columns(ret).result.columns = ret.columns
    /\ normalize_columns(ret).result = ret
    /\ normalize_columns(ret).caller = ret

\* C20 witness: a padded lower-case alias was renamed to its field's name,
\* and normalizing the result again left it as it was.
C20_Witness ==
  /\ op = "normalize_columns"
  /\ arg.df.columns = <<Padded(<<"f","l","_","l","a","p">>)>>
  /\ ret.columns = <<<<"B","E","S","T","_","L","A","P","_","N","U","M">>>>
  /\ normalize_columns(ret).result.columns = <<<<"B","E","S","T","_","L","A","P","_","N","U","M">>>>

\* a best-lap field split on its first colon only: minutes * 60 + seconds of
\* the part before it and the whole part after it; ok is FALSE without a
\* colon or when a part is no number
FirstColonSeconds(text) ==
  IF IndexOf(text, ":") = 0 THEN [ok |-> FALSE, v |-> 0]
  ELSE IF /\ ParseFloat(SubSeq(text, 1, IndexOf(text, ":") - 1)).ok
          /\ ParseFloat(SubSeq(text, IndexOf(text, ":") + 1, Len(text))).ok
       THEN [ok |-> TRUE,
             v  |-> ParseFloat(SubSeq(text, 1, IndexOf(text, ":") - 1)).v * 60
                      + ParseFloat(SubSeq(text, IndexOf(text, ":") + 1, Len(text))).v]
       ELSE [ok |-> FALSE, v |-> 0]

\* the lap times of row i under that reading, as (column, seconds) pairs
FirstColonTimes(df, i) ==
  {<<k, FirstColonSeconds(TimeStr(df, i, k)).v>> :
     k \in {c \in LapColumns(df) :
              /\ NotNa(Get(df, i, BestLapColumn(c), NaN))
              /\ FirstColonSeconds(TimeStr(df, i, c)).ok}}

\* C16 as stated, for a table with NUMBER: calculate_consistency reads a
\* best-lap field by splitting it on the first colon only, so a field without
\* a colon or with a part that is no number (as "1:23:45", whose right part
\* holds a colon) is not counted among the driver's lap times and raises
\* nothing: the rows with a record are those with at least 3 fields read so,
\* and a record's count, sum and best lap are those of the fields read so.
C16_SplitOnFirstColon ==
  (op = "calculate_consistency" /\ HasColumn(arg.df, NUMBER)) =>
    /\ ~raised
    /\ Len(ret) =
         Cardinality({i \in DOMAIN arg.df.rows :
                        Cardinality(FirstColonTimes(arg.df, i)) >= 3})
    /\ \A k \in DOMAIN ret :
          \E i \in DOMAIN arg.df.rows :
             /\ ret[k].car_number = Get(arg.df, i, NUMBER, NaN)
             /\ ret[k].n = Cardinality(FirstColonTimes(arg.df, i))
             /\ ret[k].total = SumOf(FirstColonTimes(arg.df, i))
             /\ \A x \in FirstColonTimes(arg.df, i) : ret[k].best_lap <= x[2]

\* C17: calculate_consistency returns its records by consistency_score
\* descending: no record comes after one of a larger standard deviation
\* (spread / n^2 is the variance); each record's best_lap is the least of
\* its row's lap times; and a record of equal lap times (standard deviation
\* 0) has the finite score 1 / 0.001, the deviation never being negative.
C17_OrderedByConsistency ==
  (op = "calculate_consistency" /\ ~raised) =>
    /\ \A k, m \in DOMAIN ret :
          k < m => ret[k].spread * ret[m].n * ret[m].n <= ret[m].spread * ret[k].n * ret[k].n
    /\ \A k \in DOMAIN ret :
          /\ ret[k].n >= 3
          /\ ret[k].spread >= 0
          /\ \E i \in DOMAIN arg.df.rows :
                /\ ret[k].car_number = Get(arg.df, i, NUMBER, NaN)
                /\ \E x \in LapTimes(arg.df, i) : ret[k].best_lap = x[2]
                /\ \A x \in LapTimes(arg.df, i) : ret[k].best_lap <= x[2]

\* C17 witness: of two rows the second, with equal lap times, came first in
\* the records, before the first row, whose lap times differ.
C17_Witness ==
  /\ op = "calculate_consistency"
  /\ ~raised
  /\ Len(arg.df.rows) = 2
  /\ Len(ret) = 2
  /\ ret[1].car_number = Get(arg.df, 2, NUMBER, NaN)
  /\ ret[2].car_number = Get(arg.df, 1, NUMBER, NaN)
  /\ ret[1].spread = 0
  /\ ret[2].spread > 0
  /\ ret[2].best_lap < ret[1].best_lap

\* C18 as stated, for a results table with rows and every column the
\* fastest-lap analysis selects: the summary's fastest_lap has the time, lap
\* number, speed and driver of a row whose FL_TIME is the least of the table.
C18_FastestLapOfMinimumRow ==
  (op = "generate_race_summary" /\ "results" \in DOMAIN arg.race_data
     /\ ~IsEmpty(arg.race_data["results"])
     /\ \A j \in DOMAIN FastestLapColumns :
           HasColumn(arg.race_data["results"], FastestLapColumns[j])) =>
    /\ ~raised
    /\ ~ret.fastest_lap.none
    /\ \E i \in DOMAIN arg.race_data["results"].rows :
          /\ \A j \in DOMAIN arg.race_data["results"].rows :
                LapTimeOf(Get(arg.race_data["results"], i, FL_TIME, NaN))
                  <= LapTimeOf(Get(arg.race_data["results"], j, FL_TIME, NaN))
          /\ ret.fastest_lap.time = Get(arg.race_data["results"], i, FL_TIME, NaN)
          /\ ret.fastest_lap.lap = Get(arg.race_data["results"], i, FL_LAPNUM, NaN)
          /\ ret.fastest_lap.speed = Get(arg.race_data["results"], i, FL_KPH, NaN)
          /\ Truthy(Get(arg.race_data["results"], i, DRIVER, Str(<<>>)))
                => ret.fastest_lap.driver = Get(arg.race_data["results"], i, DRIVER, Str(<<>>))

\* the column names of the frame are pairwise distinct
DistinctColumns(df) ==
  \A j, k \in DOMAIN df.columns : j # k => df.columns[j] # df.columns[k]

\* C21 as stated: for an input table whose column names are pairwise
\* distinct, normalize_columns returns a table with the same number of
\* columns, in the same order over the same rows, whose column names are
\* pairwise distinct.
C21_ColumnNamesStayUnique ==
  (op = "normalize_columns" /\ DistinctColumns(arg.df)) =>
    /\ Len(ret.columns) = Len(arg.df.columns)
    /\ ret.rows = arg.df.rows
    /\ DistinctColumns(ret)

\* the rows with a cell labelled STATUS that is exactly 'Classified'
RowsClassified(df) ==
  {i \in DOMAIN df.rows :
     \E j \in DOMAIN df.columns :
        df.columns[j] = STATUS /\ df.rows[i][j] = Str(Classified)}

\* C22 as stated: for a results table with a STATUS field
\* analyze_race_progression returns total_finishers = the number of rows,
\* total_classified = the number of rows whose STATUS is exactly
\* 'Classified', dnf_count = total_finishers - total_classified and
\* 0 <= total_classified <= total_finishers; for an empty table all counts
\* are 0 and position_changes is empty.
C22_ProgressionCounts ==
  /\ (op = "analyze_race_progression" /\ HasColumn(arg.df, STATUS)) =>
       /\ ~raised
       /\ ret.total_finishers = Len(arg.df.rows)
       /\ ret.total_classified = Cardinality(RowsClassified(arg.df))
       /\ ret.dnf_count = ret.total_finishers - ret.total_classified
       /\ 0 <= ret.total_classified
       /\ ret.total_classified <= ret.total_finishers
  /\ (op = "analyze_race_progression" /\ IsEmpty(arg.df)) =>
       /\ ~raised
       /\ ret.total_finishers = 0
       /\ ret.total_classified = 0
       /\ ret.dnf_count = 0
       /\ ret.position_changes = <<>>
====
